---- MODULE Spec2Model ----
(***************************************************************************)
(* TAIFEX market-data SDK: frame validation, header decoding, channel      *)
(* sequence tracking (TaifexSdk), the order book (OrderBook), the          *)
(* NetworkManager delivery threads and the RetransmissionClient.           *)
(*                                                                         *)
(* Specifications:                                                         *)
(*   Spec        the facade, process_message called serially               *)
(*   SpecBook    one OrderBook driven by apply_snapshot/apply_update/reset  *)
(*   SpecNet     NetworkManager: two multicast threads and the             *)
(*               retransmission receive thread delivering to the facade    *)
(*   SpecClient  RetransmissionClient: connection, reassembly, protocol    *)
(***************************************************************************)
EXTENDS Integers, Sequences, FiniteSets, TLC

(***************************************************************************)
(* Bounds of the model                                                     *)
(***************************************************************************)
\* channel sequences carried by the generated frames: 0..MaxChanSeq
MaxChanSeq == 5
\* product-message sequences carried by the generated book records
MaxProdSeq == 2
\* channel sequences carried by the packets of the network sources: 1..MaxNetSeq
MaxNetSeq == 2
\* RetransmissionClient::client_msg_seq_num_ stays within 0..MaxClientSeq
MaxClientSeq == 3
\* bytes left in RetransmissionClient::tcp_receive_buffer_ after a read
MaxBufferLen == 24
\* TCP connections the client establishes in one run
MaxConnects == 2
\* reads of any size end within this many bytes of a session
MaxSplitPos == 100

(***************************************************************************)
(* Program constants                                                       *)
(***************************************************************************)
HEADER_SIZE == 19
ESC == 27
UINT16_MAX == 65535

\* ASCII codes of the characters the code compares against
Ch0 == 48
Ch1 == 49
Ch2 == 50
Ch3 == 51
Ch4 == 52
Ch5 == 53
Ch6 == 54
Ch7 == 55
Ch8 == 56
Ch9 == 57
ChA == 65
ChB == 66
ChC == 67
ChD == 68
ChE == 69
ChF == 70
ChMinus == 45
ChSpace == 32
ChSlash == 47
ChM == 77
ChN == 78
ChT == 84
ChX == 88

(***************************************************************************)
(* State                                                                   *)
(***************************************************************************)
VARIABLES
    \* ---- TaifexSdk ----
    initialized_,          \* bool
    channel_sequences_,    \* map channel id -> last recorded channel sequence
    product_info_cache_,   \* map short product id -> MessageI010
    order_books_,          \* map product id -> OrderBook
    \* ---- what the last process_message call did (observation) ----
    pm_outcome,            \* how the call ended
    pm_class,              \* classification by is_sequence_valid
    pm_chan, pm_seq,       \* decoded channel id / channel sequence of the frame
    pm_msg_id,             \* result of identifyMessageId
    dispatched,            \* message ids handed to a body parser/handler
    recovery_requests,     \* calls of NetworkManager::trigger_retransmission_request
    i002_pending,          \* channels with a processed I002 and no accepted frame since
    \* ---- one OrderBook ----
    bids_,                 \* map signed price -> quantity (std::greater)
    asks_,                 \* map signed price -> quantity (std::less)
    derived_bid_,          \* optional PriceQuantityLevel
    derived_ask_,          \* optional PriceQuantityLevel
    last_prod_msg_seq_,    \* uint32
    \* ---- the last call made on the OrderBook (observation) ----
    ob_op,                 \* "snapshot", "update" or "reset"
    ob_seq,                \* prod_msg_seq of the record passed to the call
    \* ---- NetworkManager and its delivery threads ----
    nm_running_,           \* NetworkManager::running_
    dual_feed_enabled,     \* config_.dual_feed_enabled
    deduplication_log_,    \* keys <<channel id, channel sequence>>
    thread_pc,             \* thread -> "idle", "forward" or "in_sdk"
    thread_frame,          \* thread -> the packet its callback is handling
    thread_entry,          \* thread -> facade state read on entering process_message
    \* ---- RetransmissionClient ----
    rc_running_,           \* RetransmissionClient::running_
    connected_,
    logged_in_,
    socket_fd_,            \* -1 when closed
    client_msg_seq_num_,
    tcp_receive_buffer_,   \* bytes received and not yet consumed
    rc_trace,              \* callbacks, sends and decoding results of the last operation
    rc_op,                 \* the last operation of the client
    wire,                  \* bytes the server has written and the client has not read
    rc_connects,           \* TCP connections established so far
    rc_phase,              \* where the session is, by what has happened on it
    \* ---- a second facade fed over the multicast path only ----
    ref_sdk,               \* its channel sequences, product records and books
    ref_log,               \* the deduplication log of its NetworkManager
    paths_used,            \* delivery paths taken so far by the first facade
    \* ---- one TCP session of the retransmission server, seen as a stream ----
    stream_msgs,           \* the messages and frames the server wrote, in order
    stream_pos,            \* bytes of them the client has read
    stream_events,         \* what the client has done with the bytes read
    \* ---- the receive thread of the RetransmissionClient and a stop() call ----
    loop_pc,               \* where receive_loop is
    stop_pc,               \* where the caller of stop() is
    \* ---- the last call of a message handler of the facade (observation) ----
    hd_kind,               \* "i010", "i081", "i083" or "i002"
    hd_prod_id,            \* the product id of the body it was given
    hd_parsed,             \* whether the body parsed
    hd_body,               \* the body bytes it was given (<<>> when not modelled)
    hd_channel,            \* header.getChannelId() of the header it was given
    book_channels,         \* per book, header.getChannelId() of the messages of its product
    \* ---- two threads writing to one session, statement by statement ----
    rcv_pc,                \* where the receive thread is in perform_login / send_client_heartbeat
    rcv_seq,               \* the value it read from client_msg_seq_num_
    app_pc,                \* where the application thread is in request_retransmission
    app_seq,               \* the value it read from client_msg_seq_num_
    session_seqs,          \* msg_type and msg_seq_num written to the current connection
    \* ---- the last use of the recovery protocol's functions (observation) ----
    pr_op,                 \* "check_code", "login", "round_trip", "bad_checksum" or "bad_type"
    pr_msg,                \* the message (or the arguments) given
    pr_bytes,              \* the bytes serialize produced, as given to deserialize
    pr_out,                \* what deserialize (or calculate_check_code) returned
    \* ---- NetworkManager's choice of recovery server ----
    retrans_primary_active_,
    backup_retrans_server, \* config_.backup_retrans_server.has_value()
    nm_endpoint,           \* the server retransmission_client_ was made for ("none": no client)
    \* ---- the process ----
    terminated             \* an exception left a thread function (std::terminate)

sdkVars == <<initialized_, channel_sequences_, product_info_cache_, order_books_>>
pmVars  == <<pm_outcome, pm_class, pm_chan, pm_seq, pm_msg_id,
             dispatched, recovery_requests, i002_pending>>

facadeVars == <<sdkVars, pmVars>>
bookVars == <<bids_, asks_, derived_bid_, derived_ask_, last_prod_msg_seq_,
              ob_op, ob_seq>>

netVars == <<nm_running_, dual_feed_enabled, deduplication_log_, thread_pc,
             thread_frame, thread_entry>>
clientVars == <<rc_running_, connected_, logged_in_, socket_fd_,
                client_msg_seq_num_, tcp_receive_buffer_, rc_trace, rc_op, wire,
                rc_connects, rc_phase>>

pathVars == <<ref_sdk, ref_log, paths_used>>

streamVars == <<stream_msgs, stream_pos, stream_events>>

stopVars == <<loop_pc, stop_pc>>

handlerVars == <<hd_kind, hd_prod_id, hd_parsed, hd_body, hd_channel, book_channels>>

sendVars == <<rcv_pc, rcv_seq, app_pc, app_seq, session_seqs>>

protoVars == <<pr_op, pr_msg, pr_bytes, pr_out>>

failVars == <<retrans_primary_active_, backup_retrans_server, nm_endpoint>>

vars == <<facadeVars, bookVars, netVars, clientVars, pathVars, streamVars, stopVars,
          handlerVars, sendVars, protoVars, failVars,
          terminated>>

(***************************************************************************)
(* Small helpers on maps and sequences                                     *)
(***************************************************************************)
EmptyMap == [x \in {} |-> 0]

MapErase(m, k) == [x \in (DOMAIN m) \ {k} |-> m[x]]

MapPut(m, k, v) == [x \in (DOMAIN m) \cup {k} |-> IF x = k THEN v ELSE m[x]]

RECURSIVE Concat(_)
Concat(ss) == IF ss = <<>> THEN <<>> ELSE Head(ss) \o Concat(Tail(ss))

(***************************************************************************)
(* Codec primitives                                                        *)
(***************************************************************************)
\* bitwise XOR of two unsigned chars (operator ^= of checksum.cpp)
RECURSIVE XorBits(_, _, _)
XorBits(a, b, n) ==
    IF n = 0 THEN 0
    ELSE (((a % 2) + (b % 2)) % 2) + (2 * XorBits(a \div 2, b \div 2, n - 1))

\* XorBits tabulated over the unsigned chars
XorTable == [a \in 0..255 |-> [b \in 0..255 |-> XorBits(a, b, 8)]]

RECURSIVE calculateXorChecksum(_)
calculateXorChecksum(data_segment) ==
    IF data_segment = <<>> THEN 0
    ELSE XorTable[calculateXorChecksum(SubSeq(data_segment, 1, Len(data_segment) - 1))]
                 [data_segment[Len(data_segment)]]

\* packBcdToAscii(bcd_data, num_digits): ok = FALSE stands for the
\* std::runtime_error thrown on a nibble > 9; digits are 0..9
RECURSIVE BcdNibbles(_)
BcdNibbles(bcd_data) ==
    IF bcd_data = <<>> THEN <<>>
    ELSE <<(Head(bcd_data) \div 16), (Head(bcd_data) % 16)>> \o BcdNibbles(Tail(bcd_data))

packBcdToAscii(bcd_data, num_digits) ==
    LET full == BcdNibbles(bcd_data)
        bad  == \E i \in 1..Len(full) : full[i] > 9
        n    == Len(full)
    IN  IF bad THEN [ok |-> FALSE, digits |-> <<>>]
        ELSE IF num_digits = 0 THEN [ok |-> TRUE, digits |-> full]
        ELSE IF n < num_digits
             THEN [ok |-> TRUE, digits |-> [i \in 1..(num_digits - n) |-> 0] \o full]
        ELSE IF n > num_digits
             THEN [ok |-> TRUE, digits |-> SubSeq(full, n - num_digits + 1, n)]
        ELSE [ok |-> TRUE, digits |-> full]

\* std::stoul / std::stoull on a string of decimal digits
RECURSIVE stoul(_)
stoul(s) == IF s = <<>> THEN 0 ELSE (10 * stoul(SubSeq(s, 1, Len(s) - 1))) + s[Len(s)]

(***************************************************************************)
(* Common header                                                           *)
(***************************************************************************)
CommonHeader_parse(buffer) ==
    IF Len(buffer) < HEADER_SIZE
    THEN [ok |-> FALSE]
    ELSE [ok |-> TRUE,
          esc_code             |-> buffer[1],
          transmission_code    |-> buffer[2],
          message_kind         |-> buffer[3],
          information_time_bcd |-> SubSeq(buffer, 4, 9),
          channel_id_bcd       |-> SubSeq(buffer, 10, 11),
          channel_seq_bcd      |-> SubSeq(buffer, 12, 16),
          version_no_bcd       |-> buffer[17],
          body_length_bcd      |-> SubSeq(buffer, 18, 19)]

\* the accessors throw CoreUtils::ParsingError: ok = FALSE
\* (the range test against UINT32_MAX cannot fail for four digits)
getChannelId(header) ==
    LET s == packBcdToAscii(header.channel_id_bcd, 4)
    IN  IF ~s.ok THEN [ok |-> FALSE, val |-> 0]
        ELSE [ok |-> TRUE, val |-> stoul(s.digits)]

getChannelSeq(header) ==
    LET s == packBcdToAscii(header.channel_seq_bcd, 10)
    IN  IF ~s.ok THEN [ok |-> FALSE, val |-> 0]
        ELSE [ok |-> TRUE, val |-> stoul(s.digits)]

getBodyLength(header) ==
    LET s == packBcdToAscii(header.body_length_bcd, 4)
    IN  IF ~s.ok THEN [ok |-> FALSE, val |-> 0]
        ELSE IF stoul(s.digits) > UINT16_MAX THEN [ok |-> FALSE, val |-> 0]
        ELSE [ok |-> TRUE, val |-> stoul(s.digits)]

(***************************************************************************)
(* Message identifier                                                      *)
(***************************************************************************)
\* the static (transmission code, message kind) -> code table
message_map ==
    (<<Ch0, Ch1>> :> 1001) @@ (<<Ch0, Ch2>> :> 1002) @@
    (<<Ch1, Ch1>> :> 1010) @@ (<<Ch1, Ch2>> :> 1030) @@ (<<Ch1, Ch3>> :> 1011) @@
    (<<Ch1, Ch4>> :> 1050) @@ (<<Ch1, Ch5>> :> 1060) @@ (<<Ch1, Ch6>> :> 1120) @@
    (<<Ch1, Ch7>> :> 1130) @@ (<<Ch1, Ch8>> :> 1064) @@ (<<Ch1, ChA>> :> 1012) @@
    (<<Ch2, Ch1>> :> 1070) @@ (<<Ch2, Ch2>> :> 1071) @@ (<<Ch2, Ch3>> :> 1072) @@
    (<<Ch2, Ch4>> :> 1100) @@ (<<Ch2, ChA>> :> 1081) @@ (<<Ch2, ChB>> :> 1083) @@
    (<<Ch2, ChC>> :> 1084) @@ (<<Ch2, ChD>> :> 1024) @@ (<<Ch2, ChE>> :> 1025) @@
    (<<Ch3, Ch1>> :> 1070) @@ (<<Ch3, Ch3>> :> 1140) @@ (<<Ch3, Ch4>> :> 1073) @@
    (<<Ch4, Ch1>> :> 1010) @@ (<<Ch4, Ch2>> :> 1030) @@ (<<Ch4, Ch3>> :> 1011) @@
    (<<Ch4, Ch4>> :> 1050) @@ (<<Ch4, Ch5>> :> 1060) @@ (<<Ch4, Ch6>> :> 1120) @@
    (<<Ch4, Ch7>> :> 1130) @@ (<<Ch4, Ch8>> :> 1064) @@ (<<Ch4, ChA>> :> 1012) @@
    (<<Ch5, Ch1>> :> 1070) @@ (<<Ch5, Ch2>> :> 1071) @@ (<<Ch5, Ch3>> :> 1072) @@
    (<<Ch5, Ch4>> :> 1100) @@ (<<Ch5, ChA>> :> 1081) @@ (<<Ch5, ChB>> :> 1083) @@
    (<<Ch5, ChC>> :> 1084) @@ (<<Ch5, ChD>> :> 1024) @@ (<<Ch5, ChE>> :> 1025)

\* "I" followed by the last three digits, zero padded
formatLastThreeDigits(code_val) ==
    LET v == code_val % 1000
    IN  <<(v \div 100), ((v \div 10) % 10), (v % 10)>>

\* the id is a tuple: <<"M",1,0,0,1>>, <<"I",0,8,1>>, <<>> when not found
identifyMessageId(header) ==
    LET key == <<header.transmission_code, header.message_kind>>
    IN  IF key \in DOMAIN message_map
        THEN IF message_map[key] = 1001 THEN <<"M", 1, 0, 0, 1>>
             ELSE IF message_map[key] = 1002 THEN <<"M", 1, 0, 0, 2>>
             ELSE <<"I">> \o formatLastThreeDigits(message_map[key])
        ELSE <<>>

(***************************************************************************)
(* Raw frames fed to the facade                                            *)
(***************************************************************************)
Channels == {3, 7}

\* n as packed BCD, right aligned in nbytes bytes
RECURSIVE ToBcd(_, _)
ToBcd(n, nbytes) ==
    IF nbytes = 0 THEN <<>>
    ELSE ToBcd(n \div 100, nbytes - 1) \o <<(((n \div 10) % 10) * 16) + (n % 10)>>

\* [ESC][tc][mk][time 6][channel 2][seq 5][version 1][body length 2][body]
\* [checksum][0x0D 0x0A]
create_raw_message(tc, mk, channel_id_bcd, channel_seq_bcd, body_length_bcd, body) ==
    LET covered == <<tc, mk>> \o ToBcd(0, 6) \o channel_id_bcd \o channel_seq_bcd
                   \o <<0>> \o body_length_bcd \o body
    IN  <<ESC>> \o covered \o <<calculateXorChecksum(covered)>> \o <<13, 10>>

\* a byte with both nibbles > 9
BadBcdByte == 250

\* s padded with spaces to n characters (a fixed-width X(n) field)
Pad(s, n) == s \o [i \in 1..(n - Len(s)) |-> ChSpace]

TXF == <<ChT, ChX, ChF>>
MXF == <<ChM, ChX, ChF>>

\* the 32-byte I010 body: PROD-ID-S X(10), REFERENCE-PRICE 9(9), PROD-KIND,
\* DECIMAL-LOCATOR, STRIKE-PRICE-DECIMAL-LOCATOR, BEGIN-DATE, END-DATE,
\* FLOW-GROUP, DELIVERY-DATE, DYNAMIC-BANDING
create_i010_body(prod_id_s, decimal_locator) ==
    prod_id_s \o ToBcd(123456789, 5) \o <<ChF>> \o <<decimal_locator>> \o <<0>>
    \o ToBcd(20230115, 4) \o ToBcd(20241231, 4) \o ToBcd(5, 1)
    \o ToBcd(20250320, 4) \o <<ChN>>

\* Product Basic Data frames for "TXF       ", decimal locator 2
FramesI010 ==
    { create_raw_message(Ch1, Ch1, ToBcd(c, 2), ToBcd(q, 5), ToBcd(32, 2),
                         create_i010_body(Pad(TXF, 10), 2)) :
        c \in Channels, q \in {1, 2} }

MessageKinds == {<<Ch0, Ch1>>, <<Ch0, Ch2>>, <<Ch2, ChA>>, <<Ch9, Ch9>>}

GoodFrames ==
    { create_raw_message(k[1], k[2], ToBcd(c, 2), ToBcd(q, 5), ToBcd(0, 2), <<>>) :
        k \in MessageKinds, c \in Channels, q \in 0..MaxChanSeq }
    \cup
    { create_raw_message(Ch2, ChA, ToBcd(c, 2), ToBcd(q, 5), ToBcd(2, 2), <<1, 2>>) :
        c \in Channels, q \in {1, MaxChanSeq} }
    \cup FramesI010

aGoodFrame == create_raw_message(Ch0, Ch1, ToBcd(3, 2), ToBcd(1, 5), ToBcd(0, 2), <<>>)

BadFrames ==
    { <<>>,
      SubSeq(aGoodFrame, 1, 10),                         \* shorter than a header
      SubSeq(aGoodFrame, 1, 21),                         \* shorter than 22 bytes
      aGoodFrame \o <<0>>,                               \* longer than declared
      create_raw_message(Ch0, Ch1, ToBcd(3, 2), ToBcd(2, 5), ToBcd(4, 2), <<>>),
      [aGoodFrame EXCEPT ![20] = (@ + 1) % 256],         \* wrong checksum byte
      create_raw_message(Ch0, Ch1, ToBcd(3, 2), ToBcd(2, 5), <<0, BadBcdByte>>, <<>>),
      create_raw_message(Ch0, Ch1, <<0, BadBcdByte>>, ToBcd(2, 5), ToBcd(0, 2), <<>>),
      create_raw_message(Ch0, Ch1, ToBcd(3, 2), <<0, 0, 0, BadBcdByte, 0>>, ToBcd(0, 2), <<>>) }

Frames == GoodFrames \cup BadFrames

(***************************************************************************)
(* TaifexSdk                                                               *)
(***************************************************************************)
\* process_message's reading of the buffer without the checksum comparison
validate_frame_checksum_ignored(raw_message) ==
    LET length == Len(raw_message)
        stop(o) == [outcome |-> o, chan |-> -1, seq |-> -1, msg_id |-> <<>>]
    IN
    IF length = 0 THEN stop("empty")
    ELSE IF length < HEADER_SIZE + 1 + 2 THEN stop("too_short")
    ELSE
    LET temp_header == CommonHeader_parse(raw_message) IN
    IF ~temp_header.ok THEN stop("header_parse_failed")
    ELSE
    LET bl == getBodyLength(temp_header) IN
    IF ~bl.ok THEN stop("threw")
    ELSE IF length # HEADER_SIZE + bl.val + 1 + 2 THEN stop("length_mismatch")
    ELSE IF ~getChannelId(temp_header).ok \/ ~getChannelSeq(temp_header).ok THEN stop("threw")
    ELSE [outcome |-> "ok",
          chan    |-> getChannelId(temp_header).val,
          seq     |-> getChannelSeq(temp_header).val,
          msg_id  |-> identifyMessageId(temp_header)]

\* the part of process_message that reads only the buffer: length tests,
\* header parse, checksum and the decoding of the header fields
\* (outcome "threw" is a CoreUtils::ParsingError leaving the call)
validate_frame(raw_message) ==
    LET length == Len(raw_message)
        stop(o) == [outcome |-> o, chan |-> -1, seq |-> -1, msg_id |-> <<>>]
    IN
    IF length = 0 THEN stop("empty")
    ELSE IF length < HEADER_SIZE + 1 + 2 THEN stop("too_short")
    ELSE
    LET temp_header == CommonHeader_parse(raw_message) IN
    IF ~temp_header.ok THEN stop("header_parse_failed")
    ELSE
    LET bl == getBodyLength(temp_header) IN
    IF ~bl.ok THEN stop("threw")
    ELSE
    LET body_len_from_header  == bl.val
        expected_total_length == HEADER_SIZE + body_len_from_header + 1 + 2
    IN
    IF length # expected_total_length THEN stop("length_mismatch")
    ELSE
    LET received_checksum   == raw_message[HEADER_SIZE + body_len_from_header + 1]
        calculated_checksum ==
            calculateXorChecksum(SubSeq(raw_message, 2, HEADER_SIZE + body_len_from_header))
    IN
    IF calculated_checksum # received_checksum THEN stop("bad_checksum")
    ELSE
    \* the LOG_DEBUG line evaluates getChannelId() and getChannelSeq()
    IF ~getChannelId(temp_header).ok \/ ~getChannelSeq(temp_header).ok THEN stop("threw")
    ELSE [outcome |-> "ok",
          chan    |-> getChannelId(temp_header).val,
          seq     |-> getChannelSeq(temp_header).val,
          msg_id  |-> identifyMessageId(temp_header)]

\* validate_frame tabulated over the frames of the model
FrameTable == [f \in Frames |-> validate_frame(f)]

\* is_sequence_valid with the replay branch storing the received sequence
is_sequence_valid_replay_stored(seqs, channel_id, current_channel_seq) ==
    IF channel_id \notin DOMAIN seqs
    THEN [valid |-> TRUE, cls |-> "first",
          seqs |-> MapPut(seqs, channel_id, current_channel_seq)]
    ELSE LET last_known_seq == seqs[channel_id]
         IN  IF current_channel_seq = last_known_seq + 1
             THEN [valid |-> TRUE, cls |-> "inorder",
                   seqs |-> MapPut(seqs, channel_id, current_channel_seq)]
             ELSE IF current_channel_seq <= last_known_seq
             THEN [valid |-> FALSE, cls |-> "replay",
                   seqs |-> MapPut(seqs, channel_id, current_channel_seq)]
             ELSE [valid |-> FALSE, cls |-> "gap",
                   seqs |-> MapPut(seqs, channel_id, current_channel_seq)]

\* is_sequence_valid(header) on the channel map seqs, for a header whose
\* channel id and channel sequence decoded to channel_id, current_channel_seq
is_sequence_valid(seqs, channel_id, current_channel_seq) ==
    IF channel_id \notin DOMAIN seqs
    THEN [valid |-> TRUE, cls |-> "first",
          seqs |-> MapPut(seqs, channel_id, current_channel_seq)]
    ELSE LET last_known_seq == seqs[channel_id]
         IN  IF current_channel_seq = last_known_seq + 1
             THEN [valid |-> TRUE, cls |-> "inorder",
                   seqs |-> MapPut(seqs, channel_id, current_channel_seq)]
             ELSE IF current_channel_seq <= last_known_seq
             THEN [valid |-> FALSE, cls |-> "replay", seqs |-> seqs]
             ELSE [valid |-> FALSE, cls |-> "gap",
                   seqs |-> MapPut(seqs, channel_id, current_channel_seq)]

NoCall == [outcome |-> "none", cls |-> "none", chan |-> -1, seq |-> -1,
           msg_id |-> <<>>]

\* process_message(raw_message, length) on the facade state
\* sdk = [initialized, seqs, info, books]; the result carries the new facade
\* state, how the call ended and what it decoded
process_message(sdk, raw_message) ==
    IF ~sdk.initialized
    THEN [sdk |-> sdk, call |-> [NoCall EXCEPT !.outcome = "not_initialized"]]
    ELSE
    LET v == FrameTable[raw_message] IN
    IF v.outcome # "ok"
    THEN [sdk |-> sdk, call |-> [NoCall EXCEPT !.outcome = v.outcome]]
    ELSE
    LET r == is_sequence_valid(sdk.seqs, v.chan, v.seq)
    IN  \* the result of is_sequence_valid is not acted upon; the dispatch to
        \* the body parsers and handlers is commented out
        [sdk  |-> [sdk EXCEPT !.seqs = r.seqs],
         call |-> [outcome |-> "done", cls |-> r.cls, chan |-> v.chan,
                   seq |-> v.seq, msg_id |-> v.msg_id]]

TheSdk == [initialized |-> initialized_, seqs |-> channel_sequences_,
           info |-> product_info_cache_, books |-> order_books_]

M1002 == <<"M", 1, 0, 0, 2>>

\* bookkeeping of the channels whose last accepted frame was a SequenceReset
NextPending(pending, call) ==
    IF call.outcome = "done" /\ call.cls # "replay"
    THEN IF call.msg_id = M1002 THEN pending \cup {call.chan}
         ELSE pending \ {call.chan}
    ELSE pending

SetSdk(sdk) ==
    /\ initialized_' = sdk.initialized
    /\ channel_sequences_' = sdk.seqs
    /\ product_info_cache_' = sdk.info
    /\ order_books_' = sdk.books

SetCall(call) ==
    /\ pm_outcome' = call.outcome
    /\ pm_class' = call.cls
    /\ pm_chan' = call.chan
    /\ pm_seq' = call.seq
    /\ pm_msg_id' = call.msg_id
    /\ i002_pending' = NextPending(i002_pending, call)
    /\ UNCHANGED <<dispatched, recovery_requests>>

(***************************************************************************)
(* OrderBook (order_book.cpp)                                              *)
(* A book is the record of the object's fields.  The maps are functions    *)
(* from signed price to quantity; their iteration order is not state.      *)
(***************************************************************************)
\* std::optional<PriceQuantityLevel>
nullopt == [present |-> FALSE, price |-> 0, quantity |-> 0]

PriceQuantityLevel(price, quantity) ==
    [present |-> TRUE, price |-> price, quantity |-> quantity]

\* OrderBook::OrderBook(prod_id, decimal_loc)
OrderBook(prod_id, decimal_loc) ==
    [product_id_ |-> prod_id, decimal_locator_ |-> decimal_loc,
     last_prod_msg_seq_ |-> 0, bids_ |-> EmptyMap, asks_ |-> EmptyMap,
     derived_bid_ |-> nullopt, derived_ask_ |-> nullopt]

\* OrderBook::reset()
reset(book) ==
    [book EXCEPT !.bids_ = EmptyMap, !.asks_ = EmptyMap,
                 !.derived_bid_ = nullopt, !.derived_ask_ = nullopt,
                 !.last_prod_msg_seq_ = 0]

apply_sign_to_price(price_magnitude, sign_char) ==
    IF sign_char = ChMinus
    THEN (IF price_magnitude > 0 THEN -price_magnitude ELSE price_magnitude)
    ELSE price_magnitude

\* the derived slot written by a derived entry of a snapshot or an overlay
derived_slot(current_price, current_quantity) ==
    IF current_quantity > 0 \/ current_price # 0
    THEN PriceQuantityLevel(current_price, current_quantity)
    ELSE nullopt

\* body of the loop of apply_snapshot for one entry
snapshot_entry(book, calculated_flag, entry) ==
    LET current_price == apply_sign_to_price(entry.md_entry_px, entry.sign)
        current_quantity == entry.md_entry_size
    IN  CASE entry.md_entry_type = Ch0 ->
                 IF current_quantity > 0
                 THEN [book EXCEPT !.bids_ = MapPut(@, current_price, current_quantity)]
                 ELSE book
          [] entry.md_entry_type = Ch1 ->
                 IF current_quantity > 0
                 THEN [book EXCEPT !.asks_ = MapPut(@, current_price, current_quantity)]
                 ELSE book
          [] entry.md_entry_type = ChE ->
                 IF calculated_flag = Ch0
                 THEN [book EXCEPT !.derived_bid_ =
                           derived_slot(current_price, current_quantity)]
                 ELSE book
          [] entry.md_entry_type = ChF ->
                 IF calculated_flag = Ch0
                 THEN [book EXCEPT !.derived_ask_ =
                           derived_slot(current_price, current_quantity)]
                 ELSE book
          [] OTHER -> book

RECURSIVE snapshot_entries(_, _, _)
snapshot_entries(book, calculated_flag, md_entries) ==
    IF md_entries = <<>> THEN book
    ELSE snapshot_entries(snapshot_entry(book, calculated_flag, Head(md_entries)),
                          calculated_flag, Tail(md_entries))

\* apply_snapshot without the reset() it starts with
apply_snapshot_without_reset(book, i083_msg) ==
    snapshot_entries([book EXCEPT !.last_prod_msg_seq_ = i083_msg.prod_msg_seq],
                     i083_msg.calculated_flag, i083_msg.md_entries)

\* OrderBook::apply_snapshot(i083_msg)
apply_snapshot(book, i083_msg) ==
    snapshot_entries([reset(book) EXCEPT !.last_prod_msg_seq_ = i083_msg.prod_msg_seq],
                     i083_msg.calculated_flag, i083_msg.md_entries)

\* New / Change / Delete with a Change that stores the quantity it is
\* given, zero included
regular_side_change_stores_zero(side, update_action, current_price, current_quantity) ==
    CASE update_action = Ch0 ->
             IF current_quantity > 0
             THEN MapPut(side, current_price, current_quantity)
             ELSE side
      [] update_action = Ch1 -> MapPut(side, current_price, current_quantity)
      [] update_action = Ch2 -> MapErase(side, current_price)
      [] OTHER -> side

\* New / Change / Delete on one side of the book
regular_side(side, update_action, current_price, current_quantity) ==
    CASE update_action = Ch0 ->
             IF current_quantity > 0
             THEN MapPut(side, current_price, current_quantity)
             ELSE side
      [] update_action = Ch1 ->
             IF current_price \in DOMAIN side
             THEN IF current_quantity > 0
                  THEN MapPut(side, current_price, current_quantity)
                  ELSE MapErase(side, current_price)
             ELSE IF current_quantity > 0
                  THEN MapPut(side, current_price, current_quantity)
                  ELSE side
      [] update_action = Ch2 -> MapErase(side, current_price)
      [] OTHER -> side

\* body of the loop of apply_update for one entry
update_entry(book, entry) ==
    LET current_price == apply_sign_to_price(entry.md_entry_px, entry.sign)
        current_quantity == entry.md_entry_size
        update_action == entry.md_update_action
    IN  CASE entry.md_entry_type = Ch0 ->
                 [book EXCEPT !.bids_ = regular_side(@, update_action,
                                            current_price, current_quantity)]
          [] entry.md_entry_type = Ch1 ->
                 [book EXCEPT !.asks_ = regular_side(@, update_action,
                                            current_price, current_quantity)]
          [] entry.md_entry_type = ChE ->
                 IF update_action = Ch5
                 THEN [book EXCEPT !.derived_bid_ =
                           derived_slot(current_price, current_quantity)]
                 ELSE book
          [] entry.md_entry_type = ChF ->
                 IF update_action = Ch5
                 THEN [book EXCEPT !.derived_ask_ =
                           derived_slot(current_price, current_quantity)]
                 ELSE book
          [] OTHER -> book

RECURSIVE update_entries(_, _)
update_entries(book, md_entries) ==
    IF md_entries = <<>> THEN book
    ELSE update_entries(update_entry(book, Head(md_entries)), Tail(md_entries))

\* apply_update's bookkeeping of last_prod_msg_seq_, with the assignment
\* made for every record
update_last_prod_msg_seq_always(last, prod_msg_seq) == prod_msg_seq

\* apply_update's bookkeeping of last_prod_msg_seq_: the branch for an older
\* record is empty (its return is commented out)
update_last_prod_msg_seq(last, prod_msg_seq) ==
    IF prod_msg_seq > last \/ last = 0 THEN prod_msg_seq ELSE last

\* apply_update with the entries taken last to first
apply_update_last_first(book, i081_msg) ==
    update_entries(
        [book EXCEPT !.last_prod_msg_seq_ =
             update_last_prod_msg_seq(@, i081_msg.prod_msg_seq)],
        [i \in 1..Len(i081_msg.md_entries) |->
             i081_msg.md_entries[Len(i081_msg.md_entries) + 1 - i]])

\* OrderBook::apply_update(i081_msg): the entries are processed whatever the
\* record's sequence is
apply_update(book, i081_msg) ==
    update_entries(
        [book EXCEPT !.last_prod_msg_seq_ =
             update_last_prod_msg_seq(@, i081_msg.prod_msg_seq)],
        i081_msg.md_entries)

\* ---- the records the book is driven with ----
UpdateActions == {Ch0, Ch1, Ch2, Ch5}
RegularTypes == {Ch0, Ch1}
DerivedTypes == {ChE, ChF}
UnknownTypes == {Ch9}
Signs == {Ch0, ChMinus}
\* price magnitudes: a regular level at one magnitude with either sign; a
\* derived quote also at magnitude 0, which the slot logic tests for
RegularPrices == {1}
DerivedPrices == {0, 1}
EntrySizes == {0, 2}

MdEntriesI081 ==
    [md_update_action : UpdateActions,
     md_entry_type : RegularTypes \cup UnknownTypes,
     sign : Signs, md_entry_px : RegularPrices, md_entry_size : EntrySizes]
    \cup
    [md_update_action : UpdateActions, md_entry_type : DerivedTypes,
     sign : Signs, md_entry_px : DerivedPrices, md_entry_size : EntrySizes]

\* entries touching the same price of the bid side, for the records that
\* carry two entries
SamePriceEntriesI081 ==
    [md_update_action : {Ch0, Ch1, Ch2}, md_entry_type : {Ch0},
     sign : {Ch0}, md_entry_px : RegularPrices, md_entry_size : {1, 2}]

MdEntriesI083 ==
    [md_entry_type : RegularTypes \cup UnknownTypes, sign : Signs,
     md_entry_px : RegularPrices, md_entry_size : EntrySizes]
    \cup
    [md_entry_type : DerivedTypes, sign : Signs,
     md_entry_px : DerivedPrices, md_entry_size : EntrySizes]

\* regular entries of the snapshot records that carry two entries
TwoEntriesI083 ==
    [md_entry_type : RegularTypes, sign : Signs,
     md_entry_px : RegularPrices, md_entry_size : EntrySizes]

ProdMsgSeqs == 0..MaxProdSeq

\* MessageI081 / MessageI083: the fields the book reads
MessagesI081 ==
    [prod_msg_seq : ProdMsgSeqs,
     md_entries : {<<>>} \cup {<<e>> : e \in MdEntriesI081}
                  \cup {<<e1, e2>> : e1 \in SamePriceEntriesI081,
                                     e2 \in SamePriceEntriesI081}]

MessagesI083 ==
    [prod_msg_seq : ProdMsgSeqs, calculated_flag : {Ch0, Ch1},
     md_entries : {<<>>} \cup {<<e>> : e \in MdEntriesI083}
                  \cup {<<e1, e2>> : e1 \in TwoEntriesI083, e2 \in TwoEntriesI083}]

TheBook ==
    [product_id_ |-> "TXF", decimal_locator_ |-> 2,
     last_prod_msg_seq_ |-> last_prod_msg_seq_, bids_ |-> bids_,
     asks_ |-> asks_, derived_bid_ |-> derived_bid_,
     derived_ask_ |-> derived_ask_]

SetBook(book) ==
    /\ bids_' = book.bids_
    /\ asks_' = book.asks_
    /\ derived_bid_' = book.derived_bid_
    /\ derived_ask_' = book.derived_ask_
    /\ last_prod_msg_seq_' = book.last_prod_msg_seq_

InitBook ==
    /\ bids_ = OrderBook("TXF", 2).bids_
    /\ asks_ = OrderBook("TXF", 2).asks_
    /\ derived_bid_ = OrderBook("TXF", 2).derived_bid_
    /\ derived_ask_ = OrderBook("TXF", 2).derived_ask_
    /\ last_prod_msg_seq_ = OrderBook("TXF", 2).last_prod_msg_seq_
    /\ ob_op = "none"
    /\ ob_seq = 0

(***************************************************************************)
(* NetworkManager (network_manager.cpp)                                    *)
(* The receive thread of each MulticastReceiver and the receive thread of  *)
(* the RetransmissionClient run their data callback themselves; every      *)
(* callback ends in process_incoming_packet on the calling thread.         *)
(***************************************************************************)
DEDUPLICATION_WINDOW_SIZE == 100

\* config_.multicast_feeds.size() of the configuration the model starts with
NumMulticastFeeds == 2

MulticastThreads == {"primary", "secondary"}
Threads == MulticastThreads \cup {"retrans"}

\* the packets the three sources carry
NetFrames ==
    { create_raw_message(Ch0, Ch1, ToBcd(3, 2), ToBcd(q, 5), ToBcd(0, 2), <<>>) :
        q \in 1..MaxNetSeq }
    \cup
    { SubSeq(aGoodFrame, 1, 10),
      SubSeq(aGoodFrame, 1, 21),
      create_raw_message(Ch0, Ch1, <<0, BadBcdByte>>, ToBcd(2, 5), ToBcd(0, 2), <<>>) }

\* the head of process_incoming_packet: header parse, channel id and
\* channel sequence ("threw" is a CoreUtils::ParsingError leaving the
\* callback), and the key of the deduplication log
packet_key(data) ==
    LET header == CommonHeader_parse(data) IN
    IF ~header.ok THEN [outcome |-> "dropped", key |-> <<-1, -1>>]
    ELSE IF ~getChannelId(header).ok \/ ~getChannelSeq(header).ok
    THEN [outcome |-> "threw", key |-> <<-1, -1>>]
    ELSE [outcome |-> "ok",
          key |-> <<getChannelId(header).val, getChannelSeq(header).val>>]

PacketTable == [f \in NetFrames |-> packet_key(f)]

\* order of the combined keys (channel_id << 32) | channel_seq
KeyLess(k1, k2) == k1[1] < k2[1] \/ (k1[1] = k2[1] /\ k1[2] < k2[2])

\* deduplication_log_[key] = now, then the pruning of the smallest key
dedup_insert(log, key) ==
    LET inserted == log \cup {key} IN
    IF Cardinality(inserted) > DEDUPLICATION_WINDOW_SIZE * NumMulticastFeeds
    THEN inserted \ {CHOOSE k \in inserted : \A o \in inserted : o = k \/ KeyLess(k, o)}
    ELSE inserted

InitNet ==
    /\ nm_running_ = FALSE
    /\ dual_feed_enabled = FALSE
    /\ deduplication_log_ = {}
    /\ thread_pc = [t \in Threads |-> "idle"]
    /\ thread_frame = [t \in Threads |-> <<>>]
    /\ thread_entry = [t \in Threads |-> <<>>]

(***************************************************************************)
(* Recovery protocol (retransmission_protocol.cpp)                         *)
(* [msg_size u16][msg_type u16][msg_seq_num u32][epoch_s u32]              *)
(* [nanosecond u32][payload][check_sum], big endian; msg_size counts the   *)
(* bytes after the msg_size field up to the check_sum, exclusive.          *)
(***************************************************************************)
RetransmissionMsgHeader_SIZE == 16
RetransmissionMsgFooter_SIZE == 1
RECV_BUFFER_SIZE == 8192
LoginRequest020_MESSAGE_TYPE == 20
LoginResponse030_MESSAGE_TYPE == 30
RetransmissionStart050_MESSAGE_TYPE == 50
HeartbeatServer104_MESSAGE_TYPE == 104
HeartbeatClient105_MESSAGE_TYPE == 105
DataRequest101_MESSAGE_TYPE == 101
DataResponse102_MESSAGE_TYPE == 102
ErrorNotification010_MESSAGE_TYPE == 10
DATA_RESPONSE_102_FIXED_PAYLOAD_SIZE == 9

\* the *_PAYLOAD_SIZE constants of the fixed-size messages
PayloadSize(msg_type) ==
    CASE msg_type = LoginResponse030_MESSAGE_TYPE -> 2
      [] msg_type = RetransmissionStart050_MESSAGE_TYPE -> 0
      [] msg_type = HeartbeatServer104_MESSAGE_TYPE -> 0
      [] msg_type = ErrorNotification010_MESSAGE_TYPE -> 1
      [] msg_type = LoginRequest020_MESSAGE_TYPE -> 5
      [] msg_type = HeartbeatClient105_MESSAGE_TYPE -> 0
      [] msg_type = DataRequest101_MESSAGE_TYPE -> 8

\* the *_MSG_SIZE_FIELD_VALUE constants
MsgSizeFieldValue(msg_type) ==
    (RetransmissionMsgHeader_SIZE - 2) + PayloadSize(msg_type)

host_to_network_short(n) == <<(n \div 256) % 256, n % 256>>

host_to_network_long(n) ==
    <<(n \div 16777216) % 256, (n \div 65536) % 256, (n \div 256) % 256, n % 256>>

network_to_host_short(data, offset) == (data[offset + 1] * 256) + data[offset + 2]

network_to_host_long(data, offset) ==
    (data[offset + 1] * 16777216) + (data[offset + 2] * 65536)
    + (data[offset + 3] * 256) + data[offset + 4]

RECURSIVE SumBytes(_, _)
SumBytes(data, length) ==
    IF length = 0 THEN 0 ELSE SumBytes(data, length - 1) + data[length]

calculate_retransmission_checksum(data, length) == SumBytes(data, length) % 256

\* RetransmissionMsgHeader::deserialize(data, offset, total_len), offset 0
RetransmissionMsgHeader_deserialize(data, total_len) ==
    IF RetransmissionMsgHeader_SIZE > total_len
    THEN [ok |-> FALSE, msg_size |-> 0, msg_type |-> 0, msg_seq_num |-> 0]
    ELSE [ok |-> TRUE,
          msg_size |-> network_to_host_short(data, 0),
          msg_type |-> network_to_host_short(data, 2),
          msg_seq_num |-> network_to_host_long(data, 4)]

\* a footer accepted whatever its check_sum
RetransmissionMsgFooter_deserialize_any_checksum(data, offset, total_len, len_for_checksum) ==
    offset + RetransmissionMsgFooter_SIZE <= total_len

\* RetransmissionMsgFooter::deserialize at offset, checksum over
\* len_for_checksum bytes from the start of the message
RetransmissionMsgFooter_deserialize(data, offset, total_len, len_for_checksum) ==
    IF offset + RetransmissionMsgFooter_SIZE > total_len THEN FALSE
    ELSE IF len_for_checksum = 0 THEN FALSE
    ELSE calculate_retransmission_checksum(data, len_for_checksum) = data[offset + 1]

\* the deserialize of LoginRequest020, LoginResponse030,
\* RetransmissionStart050, ErrorNotification010, HeartbeatServer104,
\* HeartbeatClient105 and DataRequest101: whether it returns true
deserialize_fixed(data, len, MESSAGE_TYPE) ==
    LET header == RetransmissionMsgHeader_deserialize(data, len)
        expected_full_msg_len == 2 + header.msg_size + RetransmissionMsgFooter_SIZE
        offset == RetransmissionMsgHeader_SIZE + PayloadSize(MESSAGE_TYPE)
    IN  /\ header.ok
        /\ header.msg_type = MESSAGE_TYPE
        /\ header.msg_size = MsgSizeFieldValue(MESSAGE_TYPE)
        /\ len >= expected_full_msg_len
        /\ offset <= len
        /\ RetransmissionMsgFooter_deserialize(data, offset, len, 2 + header.msg_size)
        /\ offset + RetransmissionMsgFooter_SIZE = expected_full_msg_len

\* DataResponse102::deserialize
deserialize_102(data, len) ==
    LET header == RetransmissionMsgHeader_deserialize(data, len)
        base_msg_size_content ==
            (RetransmissionMsgHeader_SIZE - 2) + DATA_RESPONSE_102_FIXED_PAYLOAD_SIZE
        variable_data_len == header.msg_size - base_msg_size_content
        expected_full_msg_len == 2 + header.msg_size + RetransmissionMsgFooter_SIZE
        offset == RetransmissionMsgHeader_SIZE + DATA_RESPONSE_102_FIXED_PAYLOAD_SIZE
                  + variable_data_len
    IN  /\ header.ok
        /\ header.msg_type = DataResponse102_MESSAGE_TYPE
        /\ header.msg_size >= base_msg_size_content
        /\ len >= expected_full_msg_len
        /\ RetransmissionMsgHeader_SIZE + DATA_RESPONSE_102_FIXED_PAYLOAD_SIZE <= len
        /\ offset <= len
        /\ RetransmissionMsgFooter_deserialize(data, offset, len, 2 + header.msg_size)
        /\ offset + RetransmissionMsgFooter_SIZE = expected_full_msg_len

\* the variable part DataResponse102::deserialize copies into
\* out_retransmitted_data
retransmitted_data(data, len) ==
    IF ~deserialize_102(data, len) THEN <<>>
    ELSE LET start == RetransmissionMsgHeader_SIZE + DATA_RESPONSE_102_FIXED_PAYLOAD_SIZE
             variable_data_len ==
                 RetransmissionMsgHeader_deserialize(data, len).msg_size
                 - ((RetransmissionMsgHeader_SIZE - 2) + DATA_RESPONSE_102_FIXED_PAYLOAD_SIZE)
         IN  SubSeq(data, start + 1, start + variable_data_len)

\* serialize of a message: header, payload, check_sum
serialize(msg_size, msg_type, msg_seq_num, payload) ==
    LET body == host_to_network_short(msg_size) \o host_to_network_short(msg_type)
                \o host_to_network_long(msg_seq_num)
                \o host_to_network_long(0) \o host_to_network_long(0)
                \o payload
    IN  body \o <<calculate_retransmission_checksum(body, Len(body))>>

\* ---- what the server puts on the TCP session ----
Msg030 == serialize(16, LoginResponse030_MESSAGE_TYPE, 1, host_to_network_short(3))
Msg050 == serialize(14, RetransmissionStart050_MESSAGE_TYPE, 2, <<>>)
Msg104 == serialize(14, HeartbeatServer104_MESSAGE_TYPE, 3, <<>>)
Msg010 == serialize(15, ErrorNotification010_MESSAGE_TYPE, 4, <<1>>)
\* DataResponse102 for channel 3, status 0, begin 2, count 1, with no
\* embedded data and with one embedded market-data frame
Msg102 ==
    serialize(23, DataResponse102_MESSAGE_TYPE, 5,
              host_to_network_short(3) \o <<0>> \o host_to_network_long(2)
              \o host_to_network_short(1))
Msg102WithFrame ==
    serialize(23 + Len(aGoodFrame), DataResponse102_MESSAGE_TYPE, 5,
              host_to_network_short(3) \o <<0>> \o host_to_network_long(2)
              \o host_to_network_short(1) \o aGoodFrame)
\* the same with two embedded frames back to back
anotherGoodFrame == create_raw_message(Ch2, ChA, ToBcd(3, 2), ToBcd(2, 5), ToBcd(2, 2), <<1, 2>>)
Msg102WithTwoFrames ==
    serialize(23 + Len(aGoodFrame) + Len(anotherGoodFrame), DataResponse102_MESSAGE_TYPE, 5,
              host_to_network_short(3) \o <<0>> \o host_to_network_long(1)
              \o host_to_network_short(2) \o aGoodFrame \o anotherGoodFrame)
\* malformed: a wrong check_sum, a msg_size that is not the one of the
\* type, a msg_size too small to hold a header
Msg010BadChecksum == [Msg010 EXCEPT ![Len(Msg010)] = (@ + 1) % 256]
Msg050BadSize == serialize(15, RetransmissionStart050_MESSAGE_TYPE, 2, <<0>>)
MsgShortHeader == <<0, 5, 0, 50, 0, 0, 0, 0>>
\* a well-formed message of a type the client does not know
MsgUnknownType == serialize(14, 99, 6, <<>>)
\* a market-data frame whose body length is not BCD
FrameBadBodyLength ==
    create_raw_message(Ch0, Ch1, ToBcd(3, 2), ToBcd(2, 5), <<0, BadBcdByte>>, <<>>)

ProtocolMessages ==
    {Msg030, Msg050, Msg104, Msg010, Msg102, Msg102WithFrame, Msg102WithTwoFrames,
     Msg010BadChecksum, Msg050BadSize, MsgShortHeader, MsgUnknownType}

ServerMessages == ProtocolMessages \cup {aGoodFrame, FrameBadBodyLength}

\* messages the server may send while an earlier one is still unread
FollowUpMessages == {Msg050, aGoodFrame}

\* what handle_protocol_message finds in one complete protocol message
protocol_message(data) ==
    LET len == Len(data)
        header == RetransmissionMsgHeader_deserialize(data, len)
    IN  [header_ok |-> header.ok,
         msg_type |-> header.msg_type,
         payload |-> IF header.ok /\ header.msg_type = DataResponse102_MESSAGE_TYPE
                     THEN retransmitted_data(data, len) ELSE <<>>,
         deserialized |->
             IF ~header.ok THEN FALSE
             ELSE IF header.msg_type = DataResponse102_MESSAGE_TYPE
             THEN deserialize_102(data, len)
             ELSE IF header.msg_type \in
                     {LoginResponse030_MESSAGE_TYPE, RetransmissionStart050_MESSAGE_TYPE,
                      HeartbeatServer104_MESSAGE_TYPE, ErrorNotification010_MESSAGE_TYPE}
             THEN deserialize_fixed(data, len, header.msg_type)
             ELSE FALSE]

\* protocol_message tabulated over the messages of the model
ProtocolTable == [m \in ProtocolMessages |-> protocol_message(m)]

(***************************************************************************)
(* RetransmissionClient (retransmission_client.cpp)                        *)
(* A client is the record of the object's fields, with the trace of the    *)
(* callbacks, sends and decoding results of the operation in progress.     *)
(***************************************************************************)
Event(ev, data) == [ev |-> ev, data |-> data]

Log(c, ev, data) == [c EXCEPT !.trace = Append(@, Event(ev, data))]

\* close(socket_fd_) and the three assignments that follow it
drop_connection(c) ==
    Log([c EXCEPT !.socket_fd_ = -1, !.connected_ = FALSE, !.logged_in_ = FALSE],
        "disconnected_callback", <<>>)

\* send_tcp_message: send_ok is the result of send()
send_tcp_message(c, sent, send_ok) ==
    IF ~c.connected_ \/ c.socket_fd_ < 0 THEN c
    ELSE IF send_ok THEN Log(c, "sent", sent)
    ELSE drop_connection(c)

\* send_client_heartbeat answering only on a logged-in session
send_client_heartbeat_when_logged_in(c, send_ok) ==
    IF ~c.logged_in_ THEN c
    ELSE send_tcp_message([c EXCEPT !.client_msg_seq_num_ = @ + 1],
                          <<HeartbeatClient105_MESSAGE_TYPE, c.client_msg_seq_num_>>,
                          send_ok)

\* send_client_heartbeat()
send_client_heartbeat(c, send_ok) ==
    IF ~c.connected_ THEN c
    ELSE send_tcp_message([c EXCEPT !.client_msg_seq_num_ = @ + 1],
                          <<HeartbeatClient105_MESSAGE_TYPE, c.client_msg_seq_num_>>,
                          send_ok)

\* handle_protocol_message for a message whose header deserialized
handle_protocol_message(c, p, send_ok) ==
    CASE p.msg_type = LoginResponse030_MESSAGE_TYPE ->
             IF p.deserialized THEN Log(c, "login_response", <<>>)
             ELSE Log(c, "malformed_message", <<p.msg_type>>)
      [] p.msg_type = RetransmissionStart050_MESSAGE_TYPE ->
             IF p.deserialized
             THEN Log([c EXCEPT !.logged_in_ = TRUE], "logged_in_callback", <<>>)
             ELSE Log(c, "malformed_message", <<p.msg_type>>)
      [] p.msg_type = DataResponse102_MESSAGE_TYPE ->
             \* status_callback_(msg, retransmitted_data_payload): the
             \* NetworkManager's callback takes the message and drops the data
             IF p.deserialized THEN Log(c, "status_callback", p.payload)
             ELSE Log(c, "malformed_message", <<p.msg_type>>)
      [] p.msg_type = HeartbeatServer104_MESSAGE_TYPE ->
             IF p.deserialized
             THEN send_client_heartbeat(Log(c, "heartbeat_server", <<>>), send_ok)
             ELSE Log(c, "malformed_message", <<p.msg_type>>)
      [] p.msg_type = ErrorNotification010_MESSAGE_TYPE ->
             IF p.deserialized
             THEN [Log(c, "error_callback", <<>>) EXCEPT !.logged_in_ = FALSE]
             ELSE Log(c, "malformed_message", <<p.msg_type>>)
      [] OTHER -> Log(c, "unknown_type", <<p.msg_type>>)

Erase(buffer, n) == SubSeq(buffer, n + 1, Len(buffer))

\* the loop of process_incoming_data:  c.threw is a CoreUtils::ParsingError
\* leaving the receive thread
RECURSIVE process_buffer(_, _)
process_buffer(c, send_ok) ==
    LET buffer == c.tcp_receive_buffer_
        current_size == Len(buffer)
    IN
    IF ~c.running_ \/ current_size = 0 THEN c
    ELSE IF buffer[1] = ESC
    THEN IF current_size < HEADER_SIZE THEN c
         ELSE
         LET market_header == CommonHeader_parse(buffer) IN
         IF ~market_header.ok
         THEN [c EXCEPT !.tcp_receive_buffer_ = <<>>]
         ELSE
         LET market_body_len == getBodyLength(market_header) IN
         IF ~market_body_len.ok THEN [c EXCEPT !.threw = TRUE]
         ELSE
         LET full_market_msg_len == HEADER_SIZE + market_body_len.val + 1 + 2 IN
         IF current_size >= full_market_msg_len
         THEN process_buffer(
                  [Log(c, "market_data_callback", SubSeq(buffer, 1, full_market_msg_len))
                       EXCEPT !.tcp_receive_buffer_ = Erase(buffer, full_market_msg_len)],
                  send_ok)
         ELSE c
    ELSE IF current_size < 2 THEN c
    ELSE
    LET msg_size_from_stream == network_to_host_short(buffer, 0)
        expected_retrans_msg_len == 2 + msg_size_from_stream + 1
    IN
    IF current_size < expected_retrans_msg_len THEN c
    ELSE
    LET data == SubSeq(buffer, 1, expected_retrans_msg_len)
        p == IF data \in ProtocolMessages THEN ProtocolTable[data]
             ELSE protocol_message(data)
        handled == IF ~p.header_ok THEN Log(c, "malformed_header", <<>>)
                   ELSE handle_protocol_message(c, p, send_ok)
    IN  process_buffer(
            [handled EXCEPT !.tcp_receive_buffer_ = Erase(buffer, expected_retrans_msg_len)],
            send_ok)

\* process_incoming_data that forgets the bytes buffered by earlier reads
process_incoming_data_buffer_replaced(c, data_chunk, send_ok) ==
    process_buffer([c EXCEPT !.tcp_receive_buffer_ = data_chunk], send_ok)

\* process_incoming_data(data_chunk, length)
process_incoming_data(c, data_chunk, send_ok) ==
    process_buffer([c EXCEPT !.tcp_receive_buffer_ = @ \o data_chunk], send_ok)

\* connect_to_server() followed by perform_login(), as the receive loop
\* calls them; conn_ok is the result of socket()/connect()
connect_and_login(c, conn_ok, send_ok) ==
    LET closed == [c EXCEPT !.socket_fd_ = -1, !.connected_ = FALSE,
                            !.logged_in_ = FALSE]
    IN  IF c.connected_ /\ c.socket_fd_ >= 0 THEN c
        ELSE IF ~conn_ok THEN closed
        ELSE send_tcp_message(
                 Log([closed EXCEPT !.socket_fd_ = 3, !.connected_ = TRUE,
                                    !.client_msg_seq_num_ = 1],
                     "connected", <<>>),
                 <<LoginRequest020_MESSAGE_TYPE, 0>>, send_ok)

\* request_retransmission testing connected_ where the code tests logged_in_
request_retransmission_when_connected(c, channel_id, begin_seq_no, count, send_ok) ==
    IF ~c.connected_ THEN [client |-> c, result |-> FALSE]
    ELSE [client |-> send_tcp_message(
                         [c EXCEPT !.client_msg_seq_num_ = @ + 1],
                         <<DataRequest101_MESSAGE_TYPE, c.client_msg_seq_num_,
                           channel_id, begin_seq_no, count>>, send_ok),
          result |-> TRUE]

\* request_retransmission(channel_id, begin_seq_no, count)
request_retransmission(c, channel_id, begin_seq_no, count, send_ok) ==
    IF ~c.logged_in_ THEN [client |-> c, result |-> FALSE]
    ELSE [client |-> send_tcp_message(
                         [c EXCEPT !.client_msg_seq_num_ = @ + 1],
                         <<DataRequest101_MESSAGE_TYPE, c.client_msg_seq_num_,
                           channel_id, begin_seq_no, count>>, send_ok),
          result |-> TRUE]

\* stop()
stop(c) ==
    IF ~c.running_ THEN c
    ELSE [c EXCEPT !.running_ = FALSE, !.socket_fd_ = -1, !.connected_ = FALSE,
                   !.logged_in_ = FALSE]

TheClient ==
    [running_ |-> rc_running_, connected_ |-> connected_, logged_in_ |-> logged_in_,
     socket_fd_ |-> socket_fd_, client_msg_seq_num_ |-> client_msg_seq_num_,
     tcp_receive_buffer_ |-> tcp_receive_buffer_, trace |-> <<>>, threw |-> FALSE]

SetClient(c) ==
    /\ rc_running_' = c.running_
    /\ connected_' = c.connected_
    /\ logged_in_' = c.logged_in_
    /\ socket_fd_' = c.socket_fd_
    /\ client_msg_seq_num_' = c.client_msg_seq_num_
    /\ tcp_receive_buffer_' = c.tcp_receive_buffer_
    /\ rc_trace' = c.trace

InitClient ==
    /\ rc_running_ = FALSE
    /\ connected_ = FALSE
    /\ logged_in_ = FALSE
    /\ socket_fd_ = -1
    /\ client_msg_seq_num_ = 0
    /\ tcp_receive_buffer_ = <<>>
    /\ rc_trace = <<>>
    /\ rc_op = "none"
    /\ wire = <<>>
    /\ rc_connects = 0
    /\ rc_phase = "NeverConnected"

\* nothing has been written to the session
InitStream ==
    /\ stream_msgs = <<>>
    /\ stream_pos = 0
    /\ stream_events = <<>>

\* no handler has been called
InitHandlers ==
    /\ hd_kind = "none"
    /\ hd_prod_id = <<>>
    /\ hd_parsed = FALSE
    /\ hd_body = <<>>
    /\ hd_channel = 0
    /\ book_channels = EmptyMap

\* no receive thread yet, nobody in stop()
InitStop ==
    /\ loop_pc = "none"
    /\ stop_pc = "idle"

InitSend ==
    /\ rcv_pc = "none"
    /\ rcv_seq = 0
    /\ app_pc = "idle"
    /\ app_seq = 0
    /\ session_seqs = <<>>

InitFailover ==
    /\ retrans_primary_active_ = TRUE
    /\ backup_retrans_server = FALSE
    /\ nm_endpoint = "none"

InitProtocol ==
    /\ pr_op = "none"
    /\ pr_msg = <<>>
    /\ pr_bytes = <<>>
    /\ pr_out = <<>>

\* the second facade and its NetworkManager start like the first
InitPaths ==
    /\ ref_sdk = [seqs |-> EmptyMap, info |-> EmptyMap, books |-> EmptyMap]
    /\ ref_log = {}
    /\ paths_used = {}

(***************************************************************************)
(* Spec: the facade used by one caller                                     *)
(***************************************************************************)
Init ==
    /\ initialized_ = FALSE
    /\ channel_sequences_ = EmptyMap
    /\ product_info_cache_ = EmptyMap
    /\ order_books_ = EmptyMap
    /\ pm_outcome = "none"
    /\ pm_class = "none"
    /\ pm_chan = -1
    /\ pm_seq = -1
    /\ pm_msg_id = <<>>
    /\ dispatched = <<>>
    /\ recovery_requests = {}
    /\ i002_pending = {}
    /\ InitBook
    /\ InitNet
    /\ InitClient
    /\ InitPaths
    /\ InitStream
    /\ InitStop
    /\ InitHandlers
    /\ InitSend
    /\ InitProtocol
    /\ InitFailover
    /\ terminated = FALSE

\* TaifexSdk::initialize(); a call on an initialized facade changes nothing
Initialize ==
    /\ ~initialized_
    /\ initialized_' = TRUE
    /\ UNCHANGED <<channel_sequences_, product_info_cache_, order_books_, pmVars>>
    /\ UNCHANGED <<bookVars, netVars, clientVars, pathVars, streamVars, handlerVars, sendVars, protoVars, failVars, stopVars, terminated>>

\* one call of TaifexSdk::process_message
ProcessMessage(raw_message) ==
    LET r == process_message(TheSdk, raw_message)
    IN  /\ SetSdk(r.sdk)
        /\ SetCall(r.call)
        /\ UNCHANGED <<bookVars, netVars, clientVars, pathVars, streamVars, handlerVars, sendVars, protoVars, failVars, stopVars, terminated>>

Next ==
    \/ Initialize
    \/ \E f \in Frames : ProcessMessage(f)

Spec == Init /\ [][Next]_vars

(***************************************************************************)
(* Properties of the facade (checked under Spec)                           *)
(***************************************************************************)
\* the call made in this step passed validation, on a channel with a
\* recorded sequence
ValidatedOnKnownChannel ==
    /\ initialized_
    /\ pm_outcome' = "done"
    /\ pm_chan' \in DOMAIN channel_sequences_

\* C1: a validated frame with sequence s <= e on a channel with recorded
\* sequence e is dropped: the recorded sequence stays e, nothing is
\* dispatched to a body parser or handler, no product-info record and no
\* order book changes.
C1_ReplayDropped ==
    [][ (ValidatedOnKnownChannel /\ pm_seq' <= channel_sequences_[pm_chan'])
        => /\ channel_sequences_' = channel_sequences_
           /\ dispatched' = dispatched
           /\ product_info_cache_' = product_info_cache_
           /\ order_books_' = order_books_ ]_vars

\* a frame older than the recorded sequence has been processed
C1_Witness ==
    /\ pm_outcome = "done"
    /\ pm_chan \in DOMAIN channel_sequences_
    /\ pm_seq < channel_sequences_[pm_chan]

\* C3: a frame with s > e + 1 makes the facade emit the recovery request
\* (channel, begin = e + 1, count = s - e - 1).
C3_GapEmitsRecovery ==
    [][ (ValidatedOnKnownChannel /\ pm_seq' > channel_sequences_[pm_chan'] + 1)
        => <<pm_chan', channel_sequences_[pm_chan'] + 1,
             pm_seq' - channel_sequences_[pm_chan'] - 1>> \in recovery_requests' ]_vars

\* C4: process_message returns normally for every buffer.
C4_NeverThrows == pm_outcome # "threw"

M1010 == <<"I", 0, 1, 0>>

\* C11: a frame that passed validation and the sequence check is dispatched
\* to the parser and handler of its message id: after a Product Basic (I010)
\* frame the record is stored under its short id, and after a SequenceReset
\* (I002) the recorded sequence of its channel is 0.
C11_AcceptedFrameDispatched ==
    [][ (initialized_ /\ pm_outcome' = "done" /\ pm_class' \in {"first", "inorder"})
        => /\ pm_msg_id' = M1010 => TXF \in DOMAIN product_info_cache_'
           /\ pm_msg_id' = M1002 => channel_sequences_'[pm_chan'] = 0 ]_vars

\* C18: from one process_message call to the next the recorded sequence of
\* a channel does not decrease, unless the call processed a SequenceReset
\* (I002) on that channel and left the recorded sequence at 0.
C18_ChannelSequenceMonotone ==
    [][ \A ch \in DOMAIN channel_sequences_ :
            /\ ch \in DOMAIN channel_sequences_'
            /\ \/ channel_sequences_'[ch] >= channel_sequences_[ch]
               \/ /\ pm_outcome' = "done"
                  /\ pm_msg_id' = M1002
                  /\ pm_chan' = ch
                  /\ channel_sequences_'[ch] = 0 ]_vars

\* calls that do not advance a channel have been made on it: a frame at or
\* below its recorded sequence, the recorded sequence being 2 or more
C18_Witness ==
    /\ pm_outcome = "done"
    /\ pm_class = "replay"
    /\ pm_chan \in DOMAIN channel_sequences_
    /\ pm_seq <= channel_sequences_[pm_chan]
    /\ channel_sequences_[pm_chan] >= 2
    /\ Cardinality(DOMAIN channel_sequences_) = 2

\* the frames that are shorter than 22 bytes, or whose length differs from
\* 19 + body_length + 3, or whose checksum byte differs from the XOR of the
\* bytes [1, 19 + body_length)
MalformedFrames ==
    { f \in Frames :
        \/ Len(f) < HEADER_SIZE + 3
        \/ LET bl == getBodyLength(CommonHeader_parse(f)) IN
            /\ bl.ok
            /\ \/ Len(f) # HEADER_SIZE + bl.val + 3
               \/ calculateXorChecksum(SubSeq(f, 2, HEADER_SIZE + bl.val))
                      # f[HEADER_SIZE + bl.val + 1] }

\* C21: process_message on a buffer shorter than 22 bytes, of a length other
\* than 19 + body_length + 3, or with a wrong checksum byte leaves the channel
\* sequence map, the product-info cache and the order books as they were
C21_MalformedFrameChangesNothing ==
    \A f \in MalformedFrames : process_message(TheSdk, f).sdk = TheSdk

\* a frame with a wrong checksum byte was processed by an initialized facade
\* that had already recorded a sequence for a channel
C21_Witness ==
    /\ initialized_
    /\ pm_outcome = "bad_checksum"
    /\ channel_sequences_ # EmptyMap

\* C23: processing a SequenceReset on channel c keeps every order book
\* (none is deleted), leaves each with empty bid and ask maps, empty derived
\* slots, last-applied sequence 0 and its product id and decimal locator,
\* and makes the recorded sequence of channel c 0.
C23_SequenceResetClearsBooks ==
    [][ ( /\ initialized_ /\ pm_outcome' = "done" /\ pm_msg_id' = M1002
          /\ pm_class' \in {"first", "inorder"} )
        => /\ DOMAIN order_books_' = DOMAIN order_books_
           /\ \A p \in DOMAIN order_books_ :
                  order_books_'[p] = OrderBook(order_books_[p].product_id_,
                                               order_books_[p].decimal_locator_)
           /\ channel_sequences_'[pm_chan'] = 0 ]_vars

\* C7: the first frame accepted on a channel after a SequenceReset on it
\* is not a gap and establishes its sequence as the recorded one.
C7_NoGapAfterReset ==
    [][ (ValidatedOnKnownChannel /\ pm_chan' \in i002_pending
           /\ pm_seq' > channel_sequences_[pm_chan'])
        => /\ pm_class' # "gap"
           /\ channel_sequences_'[pm_chan'] = pm_seq' ]_vars

(***************************************************************************)
(* SpecBook: one OrderBook driven by its three mutating operations         *)
(***************************************************************************)
ApplySnapshot(i083_msg) ==
    /\ SetBook(apply_snapshot(TheBook, i083_msg))
    /\ ob_op' = "snapshot"
    /\ ob_seq' = i083_msg.prod_msg_seq
    /\ UNCHANGED <<facadeVars, netVars, clientVars, pathVars, streamVars, handlerVars, sendVars, protoVars, failVars, stopVars, terminated>>

ApplyUpdate(i081_msg) ==
    /\ SetBook(apply_update(TheBook, i081_msg))
    /\ ob_op' = "update"
    /\ ob_seq' = i081_msg.prod_msg_seq
    /\ UNCHANGED <<facadeVars, netVars, clientVars, pathVars, streamVars, handlerVars, sendVars, protoVars, failVars, stopVars, terminated>>

Reset ==
    /\ SetBook(reset(TheBook))
    /\ ob_op' = "reset"
    /\ ob_seq' = 0
    /\ UNCHANGED <<facadeVars, netVars, clientVars, pathVars, streamVars, handlerVars, sendVars, protoVars, failVars, stopVars, terminated>>

NextBook ==
    \/ \E m \in MessagesI083 : ApplySnapshot(m)
    \/ \E m \in MessagesI081 : ApplyUpdate(m)
    \/ Reset

SpecBook == Init /\ [][NextBook]_vars

(***************************************************************************)
(* Properties of the OrderBook (checked under SpecBook)                    *)
(***************************************************************************)
\* C2: apply_update with a record whose sequence is <= the book's
\* last-applied sequence leaves bids, asks, both derived slots and the
\* last-applied sequence as they were.
C2_OldUpdateLeavesBook ==
    [][ (ob_op' = "update" /\ ob_seq' <= last_prod_msg_seq_)
        => TheBook' = TheBook ]_vars

\* C8 as stated: the last-applied sequence never decreases across
\* apply_snapshot and apply_update; only reset() takes it back to 0.
C8_NeverDecreases ==
    [][ ob_op' \in {"snapshot", "update"}
        => last_prod_msg_seq_' >= last_prod_msg_seq_ ]_vars

\* C8 (amended): apply_update never decreases the last-applied sequence;
\* apply_snapshot sets it to the sequence of the snapshot record, which may
\* be lower than before; reset() sets it to 0.
C8_UpdateMonotoneSnapshotSets ==
    [][ /\ ob_op' = "update" => last_prod_msg_seq_' >= last_prod_msg_seq_
        /\ ob_op' = "snapshot" => last_prod_msg_seq_' = ob_seq'
        /\ ob_op' = "reset" => last_prod_msg_seq_' = 0 ]_vars

\* an update older than the book's last-applied sequence has been applied
C8_Witness ==
    /\ ob_op = "update"
    /\ ob_seq < last_prod_msg_seq_
    /\ DOMAIN bids_ # {}

\* C19: every price level held in the bid map or in the ask map has a
\* size above 0.
C19_LevelsHavePositiveSize ==
    /\ \A p \in DOMAIN bids_ : bids_[p] > 0
    /\ \A p \in DOMAIN asks_ : asks_[p] > 0

\* an update left a level on each side of the book, at a negative price on
\* the bid side
C19_Witness ==
    /\ ob_op = "update"
    /\ \E p \in DOMAIN bids_ : p < 0
    /\ DOMAIN asks_ # {}

\* the levels of one side of a book, as pairs <<signed price, size>>
Levels(side) == {<<p, side[p]>> : p \in DOMAIN side}

\* the entries of a snapshot record of one type with a size other than 0,
\* as pairs <<signed price, size>>
SnapshotLevels(i083_msg, md_entry_type) ==
    {<<apply_sign_to_price(i083_msg.md_entries[i].md_entry_px,
                           i083_msg.md_entries[i].sign),
       i083_msg.md_entries[i].md_entry_size>> :
        i \in {j \in 1..Len(i083_msg.md_entries) :
                  /\ i083_msg.md_entries[j].md_entry_type = md_entry_type
                  /\ i083_msg.md_entries[j].md_entry_size # 0}}

\* C20: whatever state the book is in, apply_snapshot with a record of
\* sequence s leaves the last-applied sequence at s, the bid map with
\* exactly the Buy entries of the record whose size is not 0 and the ask
\* map with exactly its Sell entries whose size is not 0.
C20_SnapshotReplacesBook ==
    \A i083_msg \in MessagesI083 :
        LET book == apply_snapshot(TheBook, i083_msg)
        IN  /\ book.last_prod_msg_seq_ = i083_msg.prod_msg_seq
            /\ Levels(book.bids_) = SnapshotLevels(i083_msg, Ch0)
            /\ Levels(book.asks_) = SnapshotLevels(i083_msg, Ch1)

\* a snapshot with a lower sequence than the book had has replaced a book
\* holding levels: a bid is left and no ask
C20_Witness ==
    /\ ob_op = "snapshot"
    /\ ob_seq = 1
    /\ last_prod_msg_seq_ = 1
    /\ DOMAIN bids_ # {}
    /\ DOMAIN asks_ = {}

(***************************************************************************)
(* SpecNet: the NetworkManager delivering to the facade                    *)
(***************************************************************************)
\* NetworkManager::configure_and_start with two multicast feeds and a
\* primary retransmission server
ConfigureAndStart(dual) ==
    /\ ~terminated
    /\ ~nm_running_
    /\ nm_running_' = TRUE
    /\ dual_feed_enabled' = dual
    /\ UNCHANGED <<deduplication_log_, thread_pc, thread_frame, thread_entry,
                   terminated>>
    /\ UNCHANGED <<facadeVars, bookVars, clientVars, pathVars, streamVars, handlerVars, sendVars, protoVars, failVars, stopVars>>

\* TaifexSdk::initialize() while the network threads may be running
InitializeNet ==
    /\ ~terminated
    /\ Initialize
    
\* a receive thread gets a packet and runs its callback up to the lookup in
\* the deduplication log: on_primary_multicast_data,
\* on_secondary_multicast_data or on_retransmitted_market_data, then
\* process_incoming_packet
ReceivePacket(t, data) ==
    /\ ~terminated
    /\ nm_running_
    /\ t = "secondary" => dual_feed_enabled
    /\ thread_pc[t] = "idle"
    /\ LET p == PacketTable[data]
           is_retransmitted == (t = "retrans")
       IN  CASE p.outcome = "dropped" ->
                    UNCHANGED <<thread_pc, thread_frame, terminated>>
             [] p.outcome = "threw" ->
                    /\ terminated' = TRUE
                    /\ UNCHANGED <<thread_pc, thread_frame>>
             [] OTHER ->
                    IF dual_feed_enabled /\ ~is_retransmitted
                       /\ p.key \in deduplication_log_
                    THEN UNCHANGED <<thread_pc, thread_frame, terminated>>
                    ELSE /\ thread_pc' = [thread_pc EXCEPT ![t] = "forward"]
                         /\ thread_frame' = [thread_frame EXCEPT ![t] = data]
                         /\ UNCHANGED terminated
    /\ UNCHANGED <<nm_running_, dual_feed_enabled, deduplication_log_, thread_entry>>
    /\ UNCHANGED <<facadeVars, bookVars, clientVars, pathVars, streamVars, handlerVars, sendVars, protoVars, failVars, stopVars>>

\* the thread records the key in the deduplication log (multicast, dual
\* feed) and calls forward_to_sdk: it is now inside process_message, which
\* has read the facade's state
ForwardToSdk(t) ==
    /\ ~terminated
    /\ thread_pc[t] = "forward"
    /\ deduplication_log_' =
           IF dual_feed_enabled /\ t # "retrans"
           THEN dedup_insert(deduplication_log_, PacketTable[thread_frame[t]].key)
           ELSE deduplication_log_
    /\ thread_pc' = [thread_pc EXCEPT ![t] = "in_sdk"]
    /\ thread_entry' = [thread_entry EXCEPT ![t] = TheSdk]
    /\ UNCHANGED <<nm_running_, dual_feed_enabled, thread_frame, terminated>>
    /\ UNCHANGED <<facadeVars, bookVars, clientVars, pathVars, streamVars, handlerVars, sendVars, protoVars, failVars, stopVars>>

\* process_message returns on thread t.  The facade takes no lock: when
\* another thread completed a call in between, the writes of this call are
\* based either on the state it read on entry or on the current state.
ReturnFromSdk(t) ==
    /\ ~terminated
    /\ thread_pc[t] = "in_sdk"
    /\ \E base \in {TheSdk, thread_entry[t]} :
          LET r == process_message(base, thread_frame[t])
          IN  /\ SetSdk(r.sdk)
              /\ SetCall(r.call)
              /\ terminated' = (r.call.outcome = "threw")
    /\ thread_pc' = [thread_pc EXCEPT ![t] = "idle"]
    /\ thread_frame' = [thread_frame EXCEPT ![t] = <<>>]
    /\ thread_entry' = [thread_entry EXCEPT ![t] = <<>>]
    /\ UNCHANGED <<nm_running_, dual_feed_enabled, deduplication_log_>>
    /\ UNCHANGED <<bookVars, clientVars, pathVars, streamVars, handlerVars, sendVars, protoVars, failVars, stopVars>>

NextNet ==
    \/ InitializeNet
    \/ \E dual \in BOOLEAN : ConfigureAndStart(dual)
    \/ \E t \in Threads, f \in NetFrames : ReceivePacket(t, f)
    \/ \E t \in Threads : ForwardToSdk(t)
    \/ \E t \in Threads : ReturnFromSdk(t)

SpecNet == Init /\ [][NextNet]_vars

(***************************************************************************)
(* Properties of the delivery threads (checked under SpecNet)              *)
(***************************************************************************)
InSdk == {t \in Threads : thread_pc[t] = "in_sdk"}

\* C5: process_message is never executed on the retransmission client's
\* receive thread.
C5_RetransThreadNeverInSdk == "retrans" \notin InSdk

\* C6: at no time are two threads inside process_message.
C6_OneThreadInSdk == Cardinality(InSdk) <= 1

\* C31: with dual feed, a multicast frame is forwarded to the facade only
\* while its key is not in the deduplication log, and forwarding records
\* the key: a frame whose key is in the log is never forwarded, whichever
\* feed it arrived on.
C31_ForwardedOnlyWhenKeyIsNew ==
    [][ dual_feed_enabled =>
          \A t \in MulticastThreads :
              (thread_pc[t] = "forward" /\ thread_pc'[t] = "in_sdk")
              => /\ PacketTable[thread_frame[t]].key \notin deduplication_log_
                 /\ PacketTable[thread_frame[t]].key \in deduplication_log_' ]_vars

(***************************************************************************)
(* SpecClient: the RetransmissionClient, its server and its callers        *)
(***************************************************************************)
\* places where a TCP read may cut the stream short
SplitPoints == {10}

ClientUnchanged == UNCHANGED <<facadeVars, bookVars, netVars, pathVars, streamVars, handlerVars, sendVars, protoVars, failVars, stopVars>>

\* the state of the session after the events of one operation: a TCP
\* connection made (LoggingIn), a LoginRequest written (AwaitingLogin), a
\* 050 handled (LoggedIn), a 010 handled (AfterError), the socket closed
\* (Disconnected)
RECURSIVE session_phase(_, _)
session_phase(phase, trace) ==
    IF trace = <<>> THEN phase
    ELSE LET e == Head(trace) IN
         session_phase(
             CASE e.ev = "connected" -> "LoggingIn"
               [] e.ev = "sent" /\ e.data[1] = LoginRequest020_MESSAGE_TYPE -> "AwaitingLogin"
               [] e.ev = "logged_in_callback"    -> "LoggedIn"
               [] e.ev = "error_callback"        -> "AfterError"
               [] e.ev = "disconnected_callback" -> "Disconnected"
               [] OTHER -> phase,
             Tail(trace))

\* the client's step ends; an exception that left the receive thread ends
\* the process
EndClientStep(c, op) ==
    \E client \in {c} :
        /\ SetClient(client)
        /\ rc_op' = op
        /\ rc_phase' = IF op = "stop" THEN "Disconnected"
                       ELSE session_phase(rc_phase, client.trace)
        /\ terminated' = client.threw

\* start(): launches the receive thread
Start ==
    /\ ~terminated
    /\ ~rc_running_
    /\ EndClientStep([TheClient EXCEPT !.running_ = TRUE], "start")
    /\ UNCHANGED <<wire, rc_connects>>
    /\ ClientUnchanged

\* receive_loop, not connected: connect_to_server and perform_login
ConnectAndLogin(conn_ok, send_ok) ==
    /\ ~terminated
    /\ rc_running_
    /\ ~connected_ \/ socket_fd_ < 0
    /\ conn_ok => rc_connects < MaxConnects
    /\ EndClientStep(connect_and_login(TheClient, conn_ok, send_ok), "connect")
    /\ wire' = <<>>
    /\ rc_connects' = IF conn_ok THEN rc_connects + 1 ELSE rc_connects
    /\ ClientUnchanged

\* the server writes a message to the session
ServerSend(m) ==
    /\ ~terminated
    /\ connected_ /\ socket_fd_ >= 0
    /\ \/ wire = <<>>
       \/ wire \in ServerMessages /\ m \in FollowUpMessages
    /\ wire' = wire \o m
    /\ UNCHANGED <<rc_running_, connected_, logged_in_, socket_fd_,
                   client_msg_seq_num_, tcp_receive_buffer_, rc_trace, rc_phase, rc_op,
                   rc_connects, terminated>>
    /\ ClientUnchanged

\* receive_loop: recv() returns n bytes, process_incoming_data runs
RecvData(n, send_ok) ==
    /\ ~terminated
    /\ rc_running_ /\ connected_ /\ socket_fd_ >= 0
    /\ n \in 1..Len(wire)
    /\ LET c == process_incoming_data(TheClient, SubSeq(wire, 1, n), send_ok)
       IN  /\ c.client_msg_seq_num_ <= MaxClientSeq
           /\ Len(c.tcp_receive_buffer_) <= MaxBufferLen
           /\ EndClientStep(c, "recv")
           /\ wire' = IF c.connected_ THEN Erase(wire, n) ELSE <<>>
           /\ UNCHANGED rc_connects
    /\ ClientUnchanged

\* receive_loop: recv() returns 0 (the server closed) or fails
RecvClosed ==
    /\ ~terminated
    /\ rc_running_ /\ connected_ /\ socket_fd_ >= 0
    /\ EndClientStep(drop_connection(TheClient), "recv_closed")
    /\ wire' = <<>>
    /\ UNCHANGED rc_connects
    /\ ClientUnchanged

\* request_retransmission called by the application
RequestRetransmission(channel_id, begin_seq_no, count, send_ok) ==
    /\ ~terminated
    /\ client_msg_seq_num_ < MaxClientSeq
    /\ LET r == request_retransmission(TheClient, channel_id, begin_seq_no,
                                       count, send_ok)
       IN  /\ EndClientStep(r.client, IF r.result THEN "request" ELSE "request_refused")
           /\ wire' = IF r.client.connected_ = connected_ THEN wire ELSE <<>>
           /\ UNCHANGED rc_connects
    /\ ClientUnchanged

\* stop() called by the owner
Stop ==
    /\ ~terminated
    /\ rc_running_
    /\ EndClientStep(stop(TheClient), "stop")
    /\ wire' = <<>>
    /\ UNCHANGED rc_connects
    /\ ClientUnchanged

NextClient ==
    \/ Start
    \/ \E conn_ok \in BOOLEAN, send_ok \in BOOLEAN : ConnectAndLogin(conn_ok, send_ok)
    \/ \E m \in ServerMessages : ServerSend(m)
    \/ \E n \in SplitPoints \cup {Len(wire)}, send_ok \in BOOLEAN : RecvData(n, send_ok)
    \/ RecvClosed
    \/ \E send_ok \in BOOLEAN : RequestRetransmission(3, 2, 1, send_ok)
    \/ Stop

SpecClient == Init /\ [][NextClient]_vars

(***************************************************************************)
(* Properties of the RetransmissionClient (checked under SpecClient)       *)
(***************************************************************************)
Disconnected == ~connected_ /\ ~logged_in_ /\ socket_fd_ < 0

\* the last thing the receive thread did in its latest read
LastEvent == IF rc_trace = <<>> THEN "none" ELSE rc_trace[Len(rc_trace)].ev

\* C9: once an ErrorNotification (010) has been handled the connection is
\* dropped: socket closed, connected and logged_in false.
C9_ErrorNotificationDisconnects ==
    (rc_op = "recv" /\ LastEvent = "error_callback") => Disconnected

\* C10: once a malformed message or a message of an unknown type has been
\* met the connection is dropped.
C10_MalformedDisconnects ==
    (rc_op = "recv"
        /\ LastEvent \in {"malformed_header", "malformed_message", "unknown_type"})
    => Disconnected

\* the messages of the given type written to the socket in a trace
SentOfType(trace, msg_type) ==
    { i \in 1..Len(trace) : trace[i].ev = "sent" /\ trace[i].data[1] = msg_type }

C28_TrueOnlyWhenSent ==
    \A send_ok \in BOOLEAN :
        LET r == request_retransmission(TheClient, 3, 2, 1, send_ok)
        IN  r.result <=>
                SentOfType(r.client.trace, DataRequest101_MESSAGE_TYPE) # {}

\* C32: whenever logged_in_ is true, connected_ is true as well
C32_LoggedInImpliesConnected ==
    logged_in_ => connected_

\* C34: a connection starts with an empty reassembly buffer: the bytes a
\* lost connection left there are not put in front of the bytes of the
\* next one.
C34_NewConnectionStartsWithEmptyBuffer ==
    (rc_op = "connect" /\ connected_) => tcp_receive_buffer_ = <<>>

\* C35: whatever bytes a recv() brought, a market-data header that cannot
\* be decoded included, process_incoming_data returns to the receive loop:
\* no exception leaves it and ends the receive thread.
C35_NoExceptionLeavesReceiveThread ==
    rc_op = "recv" => ~terminated

\* C36: logged_in_ becomes true only in a recv() step that handles a 050,
\* and each 050 that logs the client in is handled on a connection that is
\* still there and on which the LoginRequest was written; a step that
\* handles only 030s does not log the client in.
C36_LoggedInOnlyBy050AfterLogin ==
    [][ /\ (~logged_in_ /\ logged_in_')
            => /\ rc_op' = "recv" /\ Len(wire') < Len(wire)
               /\ \E i \in 1..Len(rc_trace') : rc_trace'[i].ev = "logged_in_callback"
        /\ (rc_op' = "recv" /\ Len(wire') < Len(wire))
            => \A i \in 1..Len(rc_trace') :
                   rc_trace'[i].ev = "logged_in_callback"
                   => session_phase(rc_phase, SubSeq(rc_trace', 1, i - 1))
                          \in {"AwaitingLogin", "LoggedIn", "AfterError"} ]_vars

\* C25: each valid ServerHeartbeat (104) handled on an open connection is
\* followed at once, before anything else is handled, by one ClientHeartbeat
\* (105) written to the socket - or by the drop of the connection when that
\* write fails - and no 105 is written that does not answer a 104.
C25_HeartbeatAnsweredAtOnce ==
    rc_op = "recv" =>
        /\ \A i \in 1..Len(rc_trace) :
               ( /\ rc_trace[i].ev = "heartbeat_server"
                 /\ \A j \in 1..(i - 1) : rc_trace[j].ev # "disconnected_callback" )
               => /\ i + 1 <= Len(rc_trace)
                  /\ \/ i + 1 \in SentOfType(rc_trace, HeartbeatClient105_MESSAGE_TYPE)
                     \/ rc_trace[i + 1].ev = "disconnected_callback"
        /\ \A j \in SentOfType(rc_trace, HeartbeatClient105_MESSAGE_TYPE) :
               j > 1 /\ rc_trace[j - 1].ev = "heartbeat_server"

\* one read held a 104 and the message after it: the 105 was written
\* between the two, on a session that was not logged in before
C25_Witness ==
    /\ rc_op = "recv"
    /\ Len(rc_trace) = 3
    /\ rc_trace[1].ev = "heartbeat_server"
    /\ SentOfType(rc_trace, HeartbeatClient105_MESSAGE_TYPE) = {2}
    /\ rc_trace[3].ev = "logged_in_callback"

\* the market-data frames of a block of bytes, cut by the rule of the
\* reassembly loop: 0x1B, then 19 + body_length + 3 bytes per frame
RECURSIVE market_frames(_)
market_frames(block) ==
    IF Len(block) < HEADER_SIZE \/ block[1] # ESC THEN <<>>
    ELSE LET body_len == getBodyLength(CommonHeader_parse(block))
             full_market_msg_len == HEADER_SIZE + body_len.val + 1 + 2
         IN  IF ~body_len.ok \/ Len(block) < full_market_msg_len THEN <<>>
             ELSE <<SubSeq(block, 1, full_market_msg_len)>>
                  \o market_frames(Erase(block, full_market_msg_len))

\* the data of the market_data_callback calls that follow position i of the
\* trace, up to the next event of another kind
RECURSIVE delivered_after(_, _)
delivered_after(trace, i) ==
    IF i + 1 > Len(trace) \/ trace[i + 1].ev # "market_data_callback" THEN <<>>
    ELSE <<trace[i + 1].data>> \o delivered_after(trace, i + 1)

\* C13: the market-data frames embedded in a DataResponse (102) are handed
\* to the market-data callback, each once and in payload order.
C13_EmbeddedFramesDelivered ==
    rc_op = "recv" =>
        \A i \in 1..Len(rc_trace) :
            rc_trace[i].ev = "status_callback"
            => LET embedded == market_frames(rc_trace[i].data)
                   delivered == delivered_after(rc_trace, i)
               IN  /\ Len(delivered) >= Len(embedded)
                   /\ SubSeq(delivered, 1, Len(embedded)) = embedded

(***************************************************************************)
(* SpecStream: one TCP session read in pieces                              *)
(***************************************************************************)
\* a DataResponse102 whose msg_size is 0x1B00: its first byte on the wire
\* is 0x1B.  The variable part is 6889 bytes, zero but for 0x40 and 0xC0,
\* which together add nothing to the check_sum.
Msg102Large ==
    LET head == host_to_network_short(6912)
                \o host_to_network_short(DataResponse102_MESSAGE_TYPE)
                \o host_to_network_long(5)
                \o host_to_network_long(0) \o host_to_network_long(0)
                \o host_to_network_short(3) \o <<0>> \o host_to_network_long(2)
                \o host_to_network_short(1)
    IN  head \o [i \in 1..(6912 - 23) |-> IF i = 298 THEN 64 ELSE IF i = 300 THEN 192 ELSE 0]
        \o <<calculate_retransmission_checksum(head, Len(head))>>

StreamMessages == {Msg030, Msg104, Msg102, aGoodFrame, anotherGoodFrame}

\* what the server writes on one session
Streams ==
    { <<a>> : a \in StreamMessages }
    \cup { <<a, b>> : a \in StreamMessages, b \in StreamMessages }
    \cup { <<a, b, Msg104>> : a \in {aGoodFrame, Msg102}, b \in StreamMessages }
    \cup { <<Msg102Large>> }

\* the server writes its messages to the session
ServerStream(msgs) ==
    /\ ~terminated
    /\ connected_ /\ socket_fd_ >= 0
    /\ rc_connects = 1
    /\ stream_msgs = <<>>
    /\ stream_msgs' = msgs
    /\ wire' = Concat(msgs)
    /\ UNCHANGED <<stream_pos, stream_events>>
    /\ UNCHANGED <<rc_running_, connected_, logged_in_, socket_fd_,
                   client_msg_seq_num_, tcp_receive_buffer_, rc_trace, rc_phase, rc_op,
                   rc_connects, terminated>>
    /\ UNCHANGED <<facadeVars, bookVars, netVars, pathVars, stopVars, handlerVars, sendVars, protoVars, failVars>>

\* receive_loop: recv() returns the next n bytes of the session and
\* process_incoming_data runs.  Reads that end within the first
\* MaxSplitPos bytes have any size; later ones take all there is.
RecvStream(n, send_ok) ==
    /\ ~terminated
    /\ rc_running_ /\ connected_ /\ socket_fd_ >= 0
    /\ stream_msgs # <<>>
    /\ n \in 1..Len(wire)
    /\ n <= RECV_BUFFER_SIZE
    /\ stream_pos + n <= MaxSplitPos \/ n = Len(wire)
    /\ LET c == process_incoming_data(TheClient, SubSeq(wire, 1, n), send_ok)
       IN  /\ c.client_msg_seq_num_ <= MaxClientSeq
           /\ EndClientStep(c, "recv")
           /\ wire' = IF c.connected_ THEN Erase(wire, n) ELSE <<>>
           /\ stream_events' = stream_events \o c.trace
    /\ stream_pos' = stream_pos + n
    /\ UNCHANGED <<stream_msgs, rc_connects>>
    /\ UNCHANGED <<facadeVars, bookVars, netVars, pathVars, stopVars, handlerVars, sendVars, protoVars, failVars>>

NextStream ==
    \/ Start
    \/ \E send_ok \in BOOLEAN : rc_connects = 0 /\ ConnectAndLogin(TRUE, send_ok)
    \/ \E msgs \in Streams : ServerStream(msgs)
    \/ \E n \in 1..Len(wire), send_ok \in BOOLEAN : RecvStream(n, send_ok)

SpecStream == Init /\ [][NextStream]_vars

\* the messages of msgs that lie wholly within the first pos bytes
RECURSIVE complete_prefix(_, _)
complete_prefix(msgs, pos) ==
    IF msgs = <<>> THEN <<>>
    ELSE IF Len(Head(msgs)) > pos THEN <<>>
    ELSE <<Head(msgs)>> \o complete_prefix(Tail(msgs), pos - Len(Head(msgs)))

\* what the client is to do with one message of the session
ExpectedEvent(m) ==
    CASE m = Msg030 -> Event("login_response", <<>>)
      [] m = Msg104 -> Event("heartbeat_server", <<>>)
      [] m \in {Msg102, Msg102Large} -> Event("status_callback", <<>>)
      [] OTHER -> Event("market_data_callback", m)

IsHandling(e) ==
    e.ev \in {"login_response", "heartbeat_server", "status_callback",
              "logged_in_callback", "error_callback", "unknown_type",
              "malformed_header", "malformed_message", "market_data_callback"}

\* the handling events of a trace; only a market-data callback keeps its data
Handled(trace) ==
    LET h == SelectSeq(trace, IsHandling)
    IN  [i \in 1..Len(h) |->
            IF h[i].ev = "market_data_callback" THEN h[i] ELSE Event(h[i].ev, <<>>)]

\* every complete message among the bytes read has been handled once, in
\* stream order, and the bytes of an incomplete last message are buffered
ReassembledExactly ==
    LET done == complete_prefix(stream_msgs, stream_pos)
        consumed == Len(Concat(done))
    IN  /\ Handled(stream_events) = [i \in 1..Len(done) |-> ExpectedEvent(done[i])]
        /\ tcp_receive_buffer_ = SubSeq(Concat(stream_msgs), consumed + 1, stream_pos)

\* C14 as stated: for every stream of complete recovery-protocol messages
\* and market-data frames and every split into reads, each message is
\* handled once in stream order and an incomplete tail stays buffered.
C14_AnyStreamReassembled == ReassembledExactly

\* C14 amended: the same for the streams in which no recovery-protocol
\* message begins with the byte 0x1B (msg_size outside 0x1B00..0x1BFF).
C14_StreamReassembled ==
    (\A i \in 1..Len(stream_msgs) :
        stream_msgs[i][1] = ESC => stream_msgs[i] \in {aGoodFrame, anotherGoodFrame})
    => ReassembledExactly

\* two messages have been handled and the first bytes of a third, split by
\* the read, wait in the buffer
C14_Witness ==
    /\ rc_op = "recv"
    /\ Len(Handled(stream_events)) = 2
    /\ Len(stream_msgs) = 3
    /\ tcp_receive_buffer_ # <<>>
    /\ stream_pos < Len(Concat(stream_msgs))

(***************************************************************************)
(* SpecStop: the receive thread of a RetransmissionClient, step by step,   *)
(* and its owner calling start() and stop()                                *)
(***************************************************************************)
\* connect_to_server(); conn_ok is the result of socket()/connect()
connect_to_server(c, conn_ok) ==
    IF c.connected_ /\ c.socket_fd_ >= 0 THEN c
    ELSE IF conn_ok
    THEN Log([c EXCEPT !.socket_fd_ = 3, !.connected_ = TRUE, !.logged_in_ = FALSE],
             "connected", <<>>)
    ELSE [c EXCEPT !.socket_fd_ = -1, !.connected_ = FALSE, !.logged_in_ = FALSE]

\* perform_login that writes no LoginRequest
perform_login_nothing_sent(c, send_ok) ==
    IF ~c.connected_ \/ c.logged_in_ THEN c
    ELSE [c EXCEPT !.client_msg_seq_num_ = 1]

\* perform_login(); send_ok is the result of send()
perform_login(c, send_ok) ==
    IF ~c.connected_ \/ c.logged_in_ THEN c
    ELSE send_tcp_message([c EXCEPT !.client_msg_seq_num_ = 1],
                          <<LoginRequest020_MESSAGE_TYPE, 0>>, send_ok)

\* what the server writes once the client is connected
LoginMessages == {Msg030, Msg050, Msg104}

\* start(): running_.exchange(true), then the thread is created
StartClient ==
    /\ ~terminated
    /\ ~rc_running_
    /\ stop_pc \in {"idle", "returned"}
    /\ EndClientStep([TheClient EXCEPT !.running_ = TRUE], "start")
    /\ loop_pc' = "top"
    /\ stop_pc' = "idle"
    /\ UNCHANGED <<wire, rc_connects>>
    /\ UNCHANGED <<facadeVars, bookVars, netVars, pathVars, streamVars, handlerVars, sendVars, protoVars, failVars>>

\* a step of the receive thread ends at position pc
EndLoopStep(c, op, pc) ==
    /\ EndClientStep(c, op)
    /\ loop_pc' = pc
    /\ UNCHANGED stop_pc
    /\ UNCHANGED <<facadeVars, bookVars, netVars, pathVars, streamVars, handlerVars, sendVars, protoVars, failVars>>

\* while (running_.load()) and the test of connected_ and socket_fd_
LoopCheck ==
    /\ loop_pc = "top"
    /\ EndLoopStep(TheClient, "loop",
                   IF ~rc_running_ THEN "exited"
                   ELSE IF ~connected_ \/ socket_fd_ < 0 THEN "disconnected"
                   ELSE "check_fd")
    /\ UNCHANGED <<wire, rc_connects>>

\* if (!running_.load()) break; before the reconnect sleep
LoopRecheck ==
    /\ loop_pc = "disconnected"
    /\ EndLoopStep(TheClient, "loop", IF ~rc_running_ THEN "exited" ELSE "sleep")
    /\ UNCHANGED <<wire, rc_connects>>

\* the 5 s sleep is over: connect_to_server()
LoopConnect(conn_ok) ==
    /\ loop_pc = "sleep"
    /\ conn_ok => rc_connects < MaxConnects
    /\ rc_connects' = IF conn_ok THEN rc_connects + 1 ELSE rc_connects
    /\ EndLoopStep(connect_to_server(TheClient, conn_ok), "connect",
                   IF conn_ok \/ (connected_ /\ socket_fd_ >= 0) THEN "login" ELSE "top")
    /\ wire' = <<>>

\* perform_login()
LoopLogin(send_ok) ==
    /\ loop_pc = "login"
    /\ EndLoopStep(perform_login(TheClient, send_ok), "login", "check_fd")
    /\ UNCHANGED <<wire, rc_connects>>

\* if (socket_fd_ < 0) { sleep 100 ms; continue; }
LoopCheckFd ==
    /\ loop_pc = "check_fd"
    /\ EndLoopStep(TheClient, "loop", IF socket_fd_ < 0 THEN "top" ELSE "recv")
    /\ UNCHANGED <<wire, rc_connects>>

\* recv() returns bytes: process_incoming_data
LoopRecvData(send_ok) ==
    /\ loop_pc = "recv"
    /\ socket_fd_ >= 0
    /\ wire # <<>>
    /\ \E c \in {process_incoming_data(TheClient, wire, send_ok)} :
           /\ Len(c.tcp_receive_buffer_) <= MaxBufferLen
           /\ c.client_msg_seq_num_ <= MaxClientSeq
           /\ EndLoopStep(c, "recv", "top")
    /\ wire' = <<>>
    /\ UNCHANGED rc_connects

\* recv() fails with EAGAIN (the receive timeout, DEFAULT_RECV_TIMEOUT_SEC)
LoopRecvTimeout ==
    /\ loop_pc = "recv"
    /\ EndLoopStep(TheClient, "recv_timeout", IF ~rc_running_ THEN "exited" ELSE "top")
    /\ UNCHANGED <<wire, rc_connects>>

\* recv() fails with another error (EBADF on a closed descriptor) or
\* returns 0 (the server closed)
LoopRecvFailed(returned_zero) ==
    /\ loop_pc = "recv"
    /\ returned_zero => socket_fd_ >= 0
    /\ IF ~rc_running_ /\ ~returned_zero
       THEN EndLoopStep(TheClient, "recv_failed", "exited")
       ELSE EndLoopStep(drop_connection(TheClient), "recv_closed", "top")
    /\ wire' = <<>>
    /\ UNCHANGED rc_connects

\* the server writes its login messages to the session
ServerLogin(m) ==
    /\ loop_pc \in {"login", "check_fd", "recv", "top"}
    /\ ServerSend(m)

\* stop(): running_.exchange(false)
StopExchange ==
    /\ ~terminated
    /\ stop_pc = "idle"
    /\ rc_running_
    /\ rc_running_' = FALSE
    /\ stop_pc' = "close"
    /\ rc_op' = "stop"
    /\ UNCHANGED <<connected_, logged_in_, socket_fd_, client_msg_seq_num_,
                   tcp_receive_buffer_, rc_trace, rc_phase, wire, rc_connects, loop_pc,
                   terminated>>
    /\ UNCHANGED <<facadeVars, bookVars, netVars, pathVars, streamVars, handlerVars, sendVars, protoVars, failVars>>

\* stop(): if (socket_fd_ >= 0) { close(socket_fd_); socket_fd_ = -1; }
StopClose ==
    /\ stop_pc = "close"
    /\ socket_fd_' = -1
    /\ wire' = <<>>
    /\ rc_phase' = "Disconnected"
    /\ stop_pc' = "join"
    /\ UNCHANGED <<rc_running_, connected_, logged_in_, client_msg_seq_num_,
                   tcp_receive_buffer_, rc_trace, rc_op, rc_connects, loop_pc,
                   terminated>>
    /\ UNCHANGED <<facadeVars, bookVars, netVars, pathVars, streamVars, handlerVars, sendVars, protoVars, failVars>>

\* stop(): client_thread_->join() returns, then the two flags are cleared
StopJoin ==
    /\ stop_pc = "join"
    /\ loop_pc = "exited"
    /\ connected_' = FALSE
    /\ logged_in_' = FALSE
    /\ stop_pc' = "returned"
    /\ UNCHANGED <<rc_running_, socket_fd_, client_msg_seq_num_,
                   tcp_receive_buffer_, rc_trace, rc_phase, rc_op, wire, rc_connects,
                   loop_pc, terminated>>
    /\ UNCHANGED <<facadeVars, bookVars, netVars, pathVars, streamVars, handlerVars, sendVars, protoVars, failVars>>

ReceiveLoop ==
    \/ LoopCheck
    \/ LoopRecheck
    \/ \E conn_ok \in BOOLEAN : LoopConnect(conn_ok)
    \/ \E send_ok \in BOOLEAN : LoopLogin(send_ok)
    \/ LoopCheckFd
    \/ \E send_ok \in BOOLEAN : LoopRecvData(send_ok)
    \/ LoopRecvTimeout
    \/ \E returned_zero \in BOOLEAN : LoopRecvFailed(returned_zero)

StopCall ==
    \/ StopExchange
    \/ StopClose
    \/ StopJoin

NextStop ==
    \/ StartClient
    \/ ReceiveLoop
    \/ \E m \in LoginMessages : ServerLogin(m)
    \/ StopCall

\* both threads keep running: a sleep ends, recv() returns at the latest
\* with its timeout, the caller of stop() is scheduled
SpecStop == Init /\ [][NextStop]_vars /\ WF_vars(ReceiveLoop) /\ WF_vars(StopCall)

\* C15: once stop() has been called on a started client, the receive thread
\* exits and stop() returns, and when stop() has returned the client has no
\* open socket and is neither connected nor logged in.
C15_StopReturnsClean ==
    /\ (stop_pc = "close") ~> (loop_pc = "exited" /\ stop_pc = "returned")
    /\ [](stop_pc = "returned" => socket_fd_ < 0 /\ ~connected_ /\ ~logged_in_)

find_slash(s) ==
    IF \E i \in 1..Len(s) : s[i] = ChSlash
    THEN CHOOSE i \in 1..Len(s) :
             s[i] = ChSlash /\ \A j \in 1..(i - 1) : s[j] # ChSlash
    ELSE 0

\* get_base_prod_id_for_i010_lookup: the trim of the 10-character prefix is
\* commented out
get_base_prod_id_for_i010_lookup(prod_id_from_message) ==
    LET slash_pos == find_slash(prod_id_from_message) IN
    IF slash_pos # 0 THEN SubSeq(prod_id_from_message, 1, slash_pos - 1)
    ELSE IF Len(prod_id_from_message) > 10 THEN SubSeq(prod_id_from_message, 1, 10)
    ELSE prod_id_from_message

\* bcdBytesToAsciiStringHelper: "" (ok = FALSE) for no bytes or a bad nibble
bcdBytesToAsciiStringHelper(bcd_data_view, num_digits) ==
    IF bcd_data_view = <<>> THEN [ok |-> FALSE, digits |-> <<>>]
    ELSE packBcdToAscii(bcd_data_view, num_digits)

NoI010 == [ok |-> FALSE, prod_id_s |-> <<>>, decimal_locator |-> 0]

\* parse_i010_body(body_data, body_length, out_msg)
parse_i010_body(body_data) ==
    IF Len(body_data) < 32 THEN NoI010
    ELSE
    LET ref_price_str      == bcdBytesToAsciiStringHelper(SubSeq(body_data, 11, 15), 9)
        dec_loc_str        == bcdBytesToAsciiStringHelper(SubSeq(body_data, 17, 17), 1)
        strike_dec_loc_str == bcdBytesToAsciiStringHelper(SubSeq(body_data, 18, 18), 1)
        begin_date         == bcdBytesToAsciiStringHelper(SubSeq(body_data, 19, 22), 8)
        end_date           == bcdBytesToAsciiStringHelper(SubSeq(body_data, 23, 26), 8)
        flow_group_str     == bcdBytesToAsciiStringHelper(SubSeq(body_data, 27, 27), 2)
        delivery_date      == bcdBytesToAsciiStringHelper(SubSeq(body_data, 28, 31), 8)
    IN  IF /\ ref_price_str.ok /\ dec_loc_str.ok /\ strike_dec_loc_str.ok
           /\ begin_date.ok /\ end_date.ok /\ flow_group_str.ok /\ delivery_date.ok
        THEN [ok |-> TRUE, prod_id_s |-> SubSeq(body_data, 1, 10),
              decimal_locator |-> stoul(dec_loc_str.digits)]
        ELSE NoI010

\* the loop of parse_i081_body from entry i on: md_entries is the vector
\* filled so far, which a failing conversion leaves in out_msg
RECURSIVE parse_i081_entries(_, _, _, _)
parse_i081_entries(body_data, offset, remaining, md_entries) ==
    IF remaining = 0 THEN [ok |-> TRUE, md_entries |-> md_entries]
    ELSE
    LET px_str    == bcdBytesToAsciiStringHelper(SubSeq(body_data, offset + 4, offset + 8), 9)
        size_str  == bcdBytesToAsciiStringHelper(SubSeq(body_data, offset + 9, offset + 12), 8)
        level_str == bcdBytesToAsciiStringHelper(SubSeq(body_data, offset + 13, offset + 13), 2)
    IN  IF ~px_str.ok \/ ~size_str.ok \/ ~level_str.ok
        THEN [ok |-> FALSE, md_entries |-> md_entries]
        ELSE parse_i081_entries(body_data, offset + 13, remaining - 1,
                 Append(md_entries,
                        [md_update_action |-> body_data[offset + 1],
                         md_entry_type    |-> body_data[offset + 2],
                         sign             |-> body_data[offset + 3],
                         md_entry_px      |-> stoul(px_str.digits),
                         md_entry_size    |-> stoul(size_str.digits),
                         md_price_level   |-> stoul(level_str.digits)]))

\* parse_i081_body(body_data, body_length, out_msg): ok is the returned
\* bool, the other fields are out_msg as the call leaves it
parse_i081_body(body_data) ==
    LET fail(prod_id) == [ok |-> FALSE, prod_id |-> prod_id, prod_msg_seq |-> 0,
                          md_entries |-> <<>>]
    IN
    IF Len(body_data) < 26 THEN fail(<<>>)
    ELSE
    LET prod_id == SubSeq(body_data, 1, 20)
        pms_str == bcdBytesToAsciiStringHelper(SubSeq(body_data, 21, 25), 10)
        nme_str == bcdBytesToAsciiStringHelper(SubSeq(body_data, 26, 26), 2)
    IN
    IF ~pms_str.ok \/ ~nme_str.ok THEN fail(prod_id)
    ELSE IF Len(body_data) < 26 + (stoul(nme_str.digits) * 13) THEN fail(prod_id)
    ELSE LET entries == parse_i081_entries(body_data, 26, stoul(nme_str.digits), <<>>)
         IN  [ok |-> entries.ok, prod_id |-> prod_id,
              prod_msg_seq |-> stoul(pms_str.digits),
              md_entries |-> entries.md_entries]

\* get_or_create_order_book that creates the book with a default decimal
\* locator when no Product Basic Record is cached
get_or_create_order_book_default_locator(sdk, product_id_from_message_body) ==
    IF product_id_from_message_body \in DOMAIN sdk.books
    THEN [sdk |-> sdk, ob |-> TRUE]
    ELSE [sdk |-> [sdk EXCEPT !.books =
                       MapPut(@, product_id_from_message_body,
                              OrderBook(product_id_from_message_body, 0))],
          ob |-> TRUE]

\* get_or_create_order_book(product_id_from_message_body); ob is FALSE for
\* the nullptr result
get_or_create_order_book(sdk, product_id_from_message_body) ==
    IF product_id_from_message_body \in DOMAIN sdk.books
    THEN [sdk |-> sdk, ob |-> TRUE]
    ELSE
    LET base_prod_id_for_i010 ==
            get_base_prod_id_for_i010_lookup(product_id_from_message_body)
    IN  IF base_prod_id_for_i010 \in DOMAIN sdk.info
        THEN [sdk |-> [sdk EXCEPT !.books =
                           MapPut(@, product_id_from_message_body,
                                  OrderBook(product_id_from_message_body,
                                            sdk.info[base_prod_id_for_i010].decimal_locator))],
              ob |-> TRUE]
        ELSE [sdk |-> sdk, ob |-> FALSE]

\* handle_i010(body_ptr, body_len, header): the key is the untrimmed
\* PROD-ID-S
handle_i010(sdk, body) ==
    LET i010_msg == parse_i010_body(body) IN
    IF i010_msg.ok
    THEN [sdk EXCEPT !.info = MapPut(@, i010_msg.prod_id_s, i010_msg)]
    ELSE sdk

\* handle_i081 applying what parse_i081_body left in out_msg whatever it
\* returned
handle_i081_result_ignored(sdk, parsed, prod_id, i081_msg) ==
    LET r == get_or_create_order_book(sdk, prod_id) IN
    IF r.ob
    THEN [r.sdk EXCEPT !.books[prod_id] = apply_update(@, i081_msg)]
    ELSE r.sdk

\* handle_i081: parsed is the result of parse_i081_body, prod_id and
\* i081_msg what it decoded
handle_i081(sdk, parsed, prod_id, i081_msg) ==
    IF ~parsed THEN sdk
    ELSE LET r == get_or_create_order_book(sdk, prod_id) IN
         IF r.ob
         THEN [r.sdk EXCEPT !.books[prod_id] = apply_update(@, i081_msg)]
         ELSE r.sdk

\* handle_i083: parsed is the result of parse_i083_body
handle_i083(sdk, parsed, prod_id, i083_msg) ==
    IF ~parsed THEN sdk
    ELSE LET r == get_or_create_order_book(sdk, prod_id) IN
         IF r.ob
         THEN [r.sdk EXCEPT !.books[prod_id] = apply_snapshot(@, i083_msg)]
         ELSE r.sdk

\* handle_i002(header): every book is reset, the channel's sequence set to 0
handle_i002(sdk, channel_id) ==
    [sdk EXCEPT !.books = [p \in DOMAIN sdk.books |-> reset(sdk.books[p])],
                !.seqs = MapPut(@, channel_id, 0)]

\* ---- what the handlers are driven with ----
\* PROD-ID X(20) of an I081/I083 body: a space-padded id, a composite id,
\* and an id of a product without Product Basic Data
HandlerProdIds ==
    {Pad(TXF, 20), Pad(TXF \o <<ChSlash>> \o MXF, 20), Pad(MXF, 20)}

\* I010 bodies: well formed, too short, and with a non-BCD decimal locator
HandlerBodiesI010 ==
    {create_i010_body(Pad(TXF, 10), 2),
     SubSeq(create_i010_body(Pad(TXF, 10), 2), 1, 31),
     create_i010_body(Pad(TXF, 10), BadBcdByte)}

\* one bid entry (New or Delete, size 2) per update record
HandlerMessagesI081 ==
    {m \in MessagesI081 :
        /\ m.prod_msg_seq \in {1, 2}
        /\ Len(m.md_entries) = 1
        /\ m.md_entries[1].md_entry_type = Ch0
        /\ m.md_entries[1].sign = Ch0
        /\ m.md_entries[1].md_update_action \in {Ch0, Ch2}
        /\ m.md_entries[1].md_entry_size = 2}

\* an empty snapshot and a snapshot with one ask level
HandlerMessagesI083 ==
    {m \in MessagesI083 :
        /\ m.prod_msg_seq = 1
        /\ m.calculated_flag = Ch0
        /\ \/ m.md_entries = <<>>
           \/ /\ Len(m.md_entries) = 1
              /\ m.md_entries[1].md_entry_type = Ch1
              /\ m.md_entries[1].sign = Ch0
              /\ m.md_entries[1].md_entry_size = 2}

\* one entry of an I081 body: action, type, sign, price 9(9) L5, size 9(8) L4,
\* level 9(2) L1
create_i081_entry(md_update_action, md_entry_type, sign, md_entry_px,
                  md_entry_size, md_price_level) ==
    <<md_update_action, md_entry_type, sign>>
    \o ToBcd(md_entry_px, 5) \o ToBcd(md_entry_size, 4) \o ToBcd(md_price_level, 1)

\* an I081 body: PROD-ID(20) + SEQ(5) + NUM_ENTRIES(1) + ENTRIES_DATA(N*13)
create_i081_body(prod_id, prod_msg_seq, no_md_entries, entries_data) ==
    prod_id \o ToBcd(prod_msg_seq, 5) \o ToBcd(no_md_entries, 1) \o entries_data

\* a New bid at price 1 under sequence 1
anI081Body ==
    create_i081_body(Pad(TXF, 20), 1, 1, create_i081_entry(Ch0, Ch0, Ch0, 1, 2, 1))

\* a New bid at price 2 and a New ask at price 3 under sequence 2
aTwoEntryI081Body ==
    create_i081_body(Pad(TXF, 20), 2, 2,
        create_i081_entry(Ch0, Ch0, Ch0, 2, 2, 1)
        \o create_i081_entry(Ch0, Ch1, Ch0, 3, 2, 1))

\* a Delete of the bid at price 1 under sequence 2
aDeleteI081Body ==
    create_i081_body(Pad(TXF, 20), 2, 1, create_i081_entry(Ch2, Ch0, Ch0, 1, 2, 1))

GoodBodiesI081 == {anI081Body, aTwoEntryI081Body, aDeleteI081Body}

\* two entries at the same price of the same side: New Buy@1 size 10 then
\* Change Buy@1 size 12; New then Delete; and Delete then New
SequentialBodiesI081 ==
    { create_i081_body(Pad(TXF, 20), 3, 2,
          create_i081_entry(Ch0, Ch0, Ch0, 1, 10, 1)
          \o create_i081_entry(Ch1, Ch0, Ch0, 1, 12, 1)),
      create_i081_body(Pad(TXF, 20), 3, 2,
          create_i081_entry(Ch0, Ch0, Ch0, 1, 10, 1)
          \o create_i081_entry(Ch2, Ch0, Ch0, 1, 0, 1)),
      create_i081_body(Pad(TXF, 20), 3, 2,
          create_i081_entry(Ch2, Ch0, Ch0, 1, 0, 1)
          \o create_i081_entry(Ch0, Ch0, Ch0, 1, 10, 1)) }

\* one Change entry: Buy at price 1 or Sell at price 3, with size 0 or 12
ChangeBodiesI081 ==
    { create_i081_body(Pad(TXF, 20), 3, 1,
          create_i081_entry(Ch1, md_entry_type, Ch0,
                            IF md_entry_type = Ch0 THEN 1 ELSE 3, md_entry_size, 1)) :
        md_entry_type \in RegularTypes, md_entry_size \in {0, 12} }

\* bodies parse_i081_body cannot decode: cut inside the fixed part, a
\* non-BCD sequence, fewer entries than declared, and a second entry whose
\* price, size or level is not BCD (the first entry decodes)
FailingBodiesI081 ==
    { SubSeq(anI081Body, 1, 25),
      [anI081Body EXCEPT ![21] = BadBcdByte],
      SubSeq(aTwoEntryI081Body, 1, Len(aTwoEntryI081Body) - 1),
      [aTwoEntryI081Body EXCEPT ![26 + 13 + 4] = BadBcdByte],
      [aTwoEntryI081Body EXCEPT ![26 + 13 + 9] = BadBcdByte],
      [aTwoEntryI081Body EXCEPT ![26 + 13 + 13] = BadBcdByte] }

HandlerBodiesI081 == GoodBodiesI081 \cup FailingBodiesI081

EndHandler(channel_id, sdk, kind, prod_id, parsed, body) ==
    /\ SetSdk(sdk)
    /\ hd_kind' = kind
    /\ hd_prod_id' = prod_id
    /\ hd_parsed' = parsed
    /\ hd_body' = body
    /\ hd_channel' = channel_id
    /\ book_channels' = [p \in DOMAIN sdk.books |->
                             IF p \in DOMAIN book_channels THEN book_channels[p]
                             ELSE channel_id]
    /\ UNCHANGED <<pmVars, bookVars, netVars, clientVars, pathVars, streamVars,
                   stopVars, sendVars, protoVars, failVars, terminated>>

\* the messages of one product come on one channel: header is the header
\* of a frame of the channel that carries prod_id
OnChannelOf(prod_id, channel_id) ==
    prod_id \in DOMAIN book_channels => book_channels[prod_id] = channel_id

HandleI010(channel_id, body) ==
    /\ initialized_
    /\ EndHandler(channel_id, handle_i010(TheSdk, body), "i010",
                  parse_i010_body(body).prod_id_s, parse_i010_body(body).ok, body)

HandleI081(channel_id, parsed, prod_id, i081_msg) ==
    /\ initialized_
    /\ OnChannelOf(prod_id, channel_id)
    /\ EndHandler(channel_id, handle_i081(TheSdk, parsed, prod_id, i081_msg), "i081",
                  prod_id, parsed, <<>>)

\* handle_i081(body_ptr, body_len, header, _) on the bytes of a body
HandleBodyI081(channel_id, body) ==
    /\ initialized_
    /\ \E i081_msg \in {parse_i081_body(body)} :
           /\ OnChannelOf(i081_msg.prod_id, channel_id)
           /\ EndHandler(channel_id,
                         handle_i081(TheSdk, i081_msg.ok, i081_msg.prod_id, i081_msg),
                         "i081", i081_msg.prod_id, i081_msg.ok, body)

HandleI083(channel_id, parsed, prod_id, i083_msg) ==
    /\ initialized_
    /\ OnChannelOf(prod_id, channel_id)
    /\ EndHandler(channel_id, handle_i083(TheSdk, parsed, prod_id, i083_msg), "i083",
                  prod_id, parsed, <<>>)

HandleI002(channel_id) ==
    /\ initialized_
    /\ EndHandler(channel_id, handle_i002(TheSdk, channel_id), "i002", <<>>, TRUE, <<>>)

NextHandlers ==
    \/ Initialize
    \/ \E channel_id \in Channels, body \in HandlerBodiesI010 : HandleI010(channel_id, body)
    \/ \E channel_id \in Channels, parsed \in BOOLEAN, prod_id \in HandlerProdIds,
          i081_msg \in HandlerMessagesI081 :
              HandleI081(channel_id, parsed, prod_id, i081_msg)
    \/ \E channel_id \in Channels, body \in HandlerBodiesI081 :
              HandleBodyI081(channel_id, body)
    \/ \E channel_id \in Channels, parsed \in BOOLEAN, prod_id \in HandlerProdIds,
          i083_msg \in HandlerMessagesI083 :
              HandleI083(channel_id, parsed, prod_id, i083_msg)
    \/ \E channel_id \in Channels : HandleI002(channel_id)

SpecHandlers == Init /\ [][NextHandlers]_vars

\* C16: a book enters the facade only in a step taken while a Product Basic
\* Record is cached under the short id derived from its product id; a
\* snapshot or update whose derived short id has no record creates no book
\* and leaves every book as it was.
C16_BooksNeedProductRecord ==
    [][ /\ \A p \in (DOMAIN order_books_') \ (DOMAIN order_books_) :
               get_base_prod_id_for_i010_lookup(p) \in DOMAIN product_info_cache_
        /\ ( /\ hd_kind' \in {"i081", "i083"}
             /\ get_base_prod_id_for_i010_lookup(hd_prod_id')
                    \notin DOMAIN product_info_cache_ )
           => order_books_' = order_books_ ]_vars

\* a book exists with a level in it, and the last update, for a product
\* without a record, was dropped
C16_Witness ==
    /\ hd_kind = "i081" /\ hd_parsed
    /\ get_base_prod_id_for_i010_lookup(hd_prod_id) \notin DOMAIN product_info_cache_
    /\ hd_prod_id \notin DOMAIN order_books_
    /\ Pad(TXF, 20) \in DOMAIN order_books_
    /\ order_books_[Pad(TXF, 20)].bids_ # EmptyMap

\* C17: a Product Basic Record is stored under its PROD-ID-S with the
\* trailing spaces trimmed ("TXF       " is found under "TXF"), and a
\* snapshot or update gets its book when a record is stored for its short
\* id: the part before the first '/', else the first 10 characters, with
\* trailing spaces trimmed.
C17_ShortIdTrimmed ==
    [][ LET trimmed(str) ==
                LET last == IF \E i \in 1..Len(str) : str[i] # ChSpace
                            THEN CHOOSE i \in 1..Len(str) :
                                     /\ str[i] # ChSpace
                                     /\ \A j \in (i + 1)..Len(str) : str[j] = ChSpace
                            ELSE 0
                IN  SubSeq(str, 1, last)
            short_id(prod_id) ==
                LET slash_pos == find_slash(prod_id) IN
                trimmed(IF slash_pos # 0 THEN SubSeq(prod_id, 1, slash_pos - 1)
                        ELSE IF Len(prod_id) > 10 THEN SubSeq(prod_id, 1, 10)
                        ELSE prod_id)
        IN  /\ (hd_kind' = "i010" /\ hd_parsed')
                => trimmed(hd_prod_id') \in DOMAIN product_info_cache_'
            /\ ( /\ hd_kind' \in {"i081", "i083"} /\ hd_parsed'
                 /\ \E k \in DOMAIN product_info_cache_ :
                        trimmed(k) = short_id(hd_prod_id') )
               => hd_prod_id' \in DOMAIN order_books_' ]_vars

\* C37: a SequenceReset handled for channel c leaves the books of the
\* products carried by other channels as they were, and changes the recorded
\* sequence of no channel but c.
C37_SequenceResetTouchesOnlyItsChannel ==
    [][ hd_kind' = "i002"
        => /\ \A p \in DOMAIN order_books_ :
                  book_channels[p] # hd_channel' => order_books_'[p] = order_books_[p]
           /\ \A ch \in DOMAIN channel_sequences_ :
                  ch # hd_channel' => channel_sequences_'[ch] = channel_sequences_[ch] ]_vars

\* C22: when the body parser of an update or snapshot fails, also after it
\* decoded some entries, no entry of the message reaches a book and no book
\* is created.
C22_FailedParseAppliesNothing ==
    [][ ( \/ hd_kind' = "i081" /\ hd_body' \in FailingBodiesI081
          \/ hd_kind' \in {"i081", "i083"} /\ ~hd_parsed' )
        => order_books_' = order_books_ ]_vars

\* an update whose second entry did not decode was handled while the book
\* of its product existed, the first entry of the message being decoded
C22_Witness ==
    /\ hd_kind = "i081"
    /\ hd_body = [aTwoEntryI081Body EXCEPT ![26 + 13 + 4] = BadBcdByte]
    /\ ~hd_parsed
    /\ Len(parse_i081_body(hd_body).md_entries) = 1
    /\ hd_prod_id \in DOMAIN order_books_
    /\ order_books_[hd_prod_id].last_prod_msg_seq_ < 2

(***************************************************************************)
(* SpecUpdates: handle_i081 on the bytes of update bodies of one product,  *)
(* with one and with two entries                                           *)
(***************************************************************************)
\* bodies whose length is not 26 + 13 * NO-MD-ENTRIES: two entries declared
\* and the bytes of one, one entry declared and the bytes of two
LengthBodiesI081 ==
    { SubSeq(aTwoEntryI081Body, 1, 26 + 13),
      [aTwoEntryI081Body EXCEPT ![26] = 1] }

UpdateBodiesI081 ==
    GoodBodiesI081 \cup SequentialBodiesI081 \cup ChangeBodiesI081 \cup LengthBodiesI081

NextUpdates ==
    \/ Initialize
    \/ \E channel_id \in Channels, body \in HandlerBodiesI010 : HandleI010(channel_id, body)
    \/ \E channel_id \in Channels, body \in UpdateBodiesI081 :
              HandleBodyI081(channel_id, body)
    \/ \E channel_id \in Channels : HandleI002(channel_id)

SpecUpdates == Init /\ [][NextUpdates]_vars

\* the entries of the update handled in this step, and the book they were
\* applied to (a book made in this step starts empty)
HandledEntries == parse_i081_body(hd_body').md_entries

BookBefore ==
    IF hd_prod_id' \in DOMAIN order_books_ THEN order_books_[hd_prod_id']
    ELSE OrderBook(hd_prod_id', order_books_'[hd_prod_id'].decimal_locator_)

\* C38: an update of two entries leaves the book that two updates of one
\* entry each, the first entry's and then the second's, leave; after
\* New Buy@1 size 10 and Change Buy@1 size 12 the bid at 1 has size 12.
C38_EntriesAppliedInMessageOrder ==
    [][ ( /\ hd_kind' = "i081" /\ hd_body' \in SequentialBodiesI081
          /\ hd_prod_id' \in DOMAIN order_books_' )
        => LET first == [prod_msg_seq |-> 3, md_entries |-> <<HandledEntries[1]>>]
               second == [prod_msg_seq |-> 3, md_entries |-> <<HandledEntries[2]>>]
               after == order_books_'[hd_prod_id']
           IN  /\ after = apply_update(apply_update(BookBefore, first), second)
               /\ (HandledEntries[1].md_update_action = Ch0
                     /\ HandledEntries[2].md_update_action = Ch1)
                  => (1 \in DOMAIN after.bids_ /\ after.bids_[1] = 12)
               /\ HandledEntries[2].md_update_action = Ch2 => 1 \notin DOMAIN after.bids_
               /\ HandledEntries[1].md_update_action = Ch2
                  => (1 \in DOMAIN after.bids_ /\ after.bids_[1] = 10) ]_vars

\* New Buy@1 size 10 then Change Buy@1 size 12 was applied to a book that
\* had another size at that price
C38_Witness ==
    /\ hd_kind = "i081" /\ hd_body \in SequentialBodiesI081
    /\ parse_i081_body(hd_body).md_entries[2].md_update_action = Ch1
    /\ hd_prod_id \in DOMAIN order_books_
    /\ order_books_[hd_prod_id].bids_ = (1 :> 12) @@ order_books_[hd_prod_id].bids_
    /\ 2 \in DOMAIN order_books_[hd_prod_id].bids_

\* C39: a Change entry on Buy or Sell at price P with size q: P present
\* and q > 0, the size becomes q; P present and q = 0, the level is removed;
\* P absent and q > 0, the level is inserted; P absent and q = 0, nothing;
\* and no other level of either side changes.
C39_ChangeEntry ==
    [][ ( /\ hd_kind' = "i081" /\ hd_body' \in ChangeBodiesI081
          /\ hd_prod_id' \in DOMAIN order_books_' )
        => LET entry == HandledEntries[1]
               P == entry.md_entry_px
               q == entry.md_entry_size
               before == BookBefore
               after == order_books_'[hd_prod_id']
               side == IF entry.md_entry_type = Ch0 THEN before.bids_ ELSE before.asks_
               side_after == IF entry.md_entry_type = Ch0 THEN after.bids_ ELSE after.asks_
           IN  /\ (P \in DOMAIN side /\ q > 0)
                     => (P \in DOMAIN side_after /\ side_after[P] = q)
               /\ (P \in DOMAIN side /\ q = 0) => P \notin DOMAIN side_after
               /\ (P \notin DOMAIN side /\ q > 0)
                     => (P \in DOMAIN side_after /\ side_after[P] = q)
               /\ (P \notin DOMAIN side /\ q = 0) => side_after = side
               /\ \A x \in (DOMAIN side \cup DOMAIN side_after) \ {P} :
                      x \in DOMAIN side /\ x \in DOMAIN side_after /\ side_after[x] = side[x]
               /\ IF entry.md_entry_type = Ch0 THEN after.asks_ = before.asks_
                  ELSE after.bids_ = before.bids_ ]_vars

\* a Change with size 0 was applied to a book that had the level, beside
\* another level of the same side, and removed it
C39_Witness ==
    /\ hd_kind = "i081" /\ hd_body \in ChangeBodiesI081
    /\ parse_i081_body(hd_body).md_entries[1].md_entry_size = 0
    /\ parse_i081_body(hd_body).md_entries[1].md_entry_type = Ch0
    /\ parse_i081_body(hd_body).md_entries[1].md_entry_px = 1
    /\ hd_prod_id \in DOMAIN order_books_
    /\ DOMAIN order_books_[hd_prod_id].bids_ = {2}
    /\ order_books_[hd_prod_id].last_prod_msg_seq_ = 3

\* C40: parse_i081_body returns true only for a body of 26 + 13 * n bytes,
\* n being the entry count it declares; a shorter or a longer body is
\* rejected.
C40_ParsedOnlyAtDeclaredLength ==
    [][ (hd_kind' = "i081" /\ hd_body' # <<>> /\ hd_parsed')
        => Len(hd_body') = 26 + 13 * Len(HandledEntries) ]_vars

(***************************************************************************)
(* SpecPaths: the same frames delivered over the multicast path and over   *)
(* the retransmission path, one frame at a time                            *)
(***************************************************************************)
\* frames with a product body (I010, I081), accepted by validation
PathFrames ==
    FramesI010
    \cup
    { create_raw_message(Ch2, ChA, ToBcd(c, 2), ToBcd(q, 5), ToBcd(0, 2), <<>>) :
        c \in Channels, q \in 1..(MaxNetSeq + 1) }
    \cup
    { create_raw_message(Ch2, ChA, ToBcd(c, 2), ToBcd(1, 5), ToBcd(2, 2), <<1, 2>>) :
        c \in Channels }

\* packet_key and process_message's validation tabulated over these frames
PathTable == [f \in PathFrames |-> packet_key(f)]

\* process_incoming_packet that keeps the frames of the retransmission path
\* away from the sequence tracker
process_incoming_packet_recovered_untracked(nm, sdk, data, is_retransmitted) ==
    IF ~nm.running THEN [log |-> nm.log, sdk |-> sdk, outcome |-> "not_running"]
    ELSE
    LET p == PathTable[data] IN
    IF p.outcome = "dropped" THEN [log |-> nm.log, sdk |-> sdk, outcome |-> "dropped"]
    ELSE IF p.outcome = "threw" THEN [log |-> nm.log, sdk |-> sdk, outcome |-> "threw"]
    ELSE IF nm.dual /\ ~is_retransmitted /\ p.key \in nm.log
    THEN [log |-> nm.log, sdk |-> sdk, outcome |-> "duplicate"]
    ELSE [log |-> IF nm.dual /\ ~is_retransmitted THEN dedup_insert(nm.log, p.key)
                  ELSE nm.log,
          sdk |-> IF is_retransmitted THEN sdk ELSE process_message(sdk, data).sdk,
          outcome |-> process_message(sdk, data).call.outcome]

\* process_incoming_packet(data, length, is_from_primary_feed,
\* is_retransmitted) run to its end by one thread, forward_to_sdk and
\* process_message included; nm = [running, dual, log]
process_incoming_packet(nm, sdk, data, is_retransmitted) ==
    IF ~nm.running THEN [log |-> nm.log, sdk |-> sdk, outcome |-> "not_running"]
    ELSE
    LET p == PathTable[data] IN
    IF p.outcome = "dropped" THEN [log |-> nm.log, sdk |-> sdk, outcome |-> "dropped"]
    ELSE IF p.outcome = "threw" THEN [log |-> nm.log, sdk |-> sdk, outcome |-> "threw"]
    ELSE IF nm.dual /\ ~is_retransmitted /\ p.key \in nm.log
    THEN [log |-> nm.log, sdk |-> sdk, outcome |-> "duplicate"]
    ELSE CHOOSE forwarded \in
             { [log |-> IF nm.dual /\ ~is_retransmitted
                        THEN dedup_insert(nm.log, p.key) ELSE nm.log,
                sdk |-> pm.sdk,
                outcome |-> pm.call.outcome] :
               pm \in {process_message(sdk, data)} } : TRUE

\* the frame follows, in sequence order, the frames delivered on its channel
InSequenceOrder(f) ==
    IF FrameTable[f].chan \in DOMAIN channel_sequences_
    THEN FrameTable[f].seq > channel_sequences_[FrameTable[f].chan]
    ELSE TRUE

\* the next frame reaches the first facade over the given path
\* (on_primary_multicast_data or on_retransmitted_market_data) and the
\* second facade over the multicast path
DeliverFrame(path, f) ==
    /\ ~terminated
    /\ nm_running_
    /\ initialized_
    /\ InSequenceOrder(f)
    /\ \E r \in {process_incoming_packet(
                      [running |-> nm_running_, dual |-> dual_feed_enabled,
                       log |-> deduplication_log_],
                      TheSdk, f, path = "recovered")},
          ref \in {process_incoming_packet(
                      [running |-> nm_running_, dual |-> dual_feed_enabled,
                       log |-> ref_log],
                      [initialized |-> initialized_, seqs |-> ref_sdk.seqs,
                       info |-> ref_sdk.info, books |-> ref_sdk.books],
                      f, FALSE)},
          pm \in {process_message(TheSdk, f)} :
           /\ SetSdk(r.sdk)
           /\ SetCall(pm.call)
           /\ deduplication_log_' = r.log
           /\ ref_sdk' = [seqs |-> ref.sdk.seqs, info |-> ref.sdk.info,
                          books |-> ref.sdk.books]
           /\ ref_log' = ref.log
    /\ paths_used' = paths_used \cup {path}
    /\ UNCHANGED <<nm_running_, dual_feed_enabled, thread_pc, thread_frame,
                   thread_entry, terminated>>
    /\ UNCHANGED <<bookVars, clientVars, streamVars, handlerVars, sendVars, protoVars, failVars, stopVars>>

NextPaths ==
    \/ InitializeNet
    \/ \E dual \in BOOLEAN : ConfigureAndStart(dual)
    \/ \E path \in {"live", "recovered"}, f \in PathFrames : DeliverFrame(path, f)

SpecPaths == Init /\ [][NextPaths]_vars

SentMsg(msg_type, msg_seq_num) == [msg_type |-> msg_type, msg_seq_num |-> msg_seq_num]

SendUnchanged ==
    UNCHANGED <<facadeVars, bookVars, netVars, pathVars, streamVars, handlerVars,
                stopVars, protoVars, failVars, tcp_receive_buffer_, rc_trace, rc_phase, wire, terminated>>

\* start(): the receive thread is created
SendStart ==
    /\ rcv_pc = "none"
    /\ rc_running_' = TRUE
    /\ rcv_pc' = "connect"
    /\ rc_op' = "start"
    /\ UNCHANGED <<connected_, logged_in_, socket_fd_, client_msg_seq_num_, rc_connects,
                   rcv_seq, app_pc, app_seq, session_seqs>>
    /\ SendUnchanged

\* receive_loop, not connected: connect_to_server()
RcvConnect(conn_ok) ==
    /\ rcv_pc = "connect"
    /\ conn_ok => rc_connects < MaxConnects
    /\ \E c \in {connect_to_server(TheClient, conn_ok)} :
           /\ connected_' = c.connected_
           /\ logged_in_' = c.logged_in_
           /\ socket_fd_' = c.socket_fd_
    /\ rc_connects' = IF conn_ok THEN rc_connects + 1 ELSE rc_connects
    /\ session_seqs' = IF conn_ok THEN <<>> ELSE session_seqs
    /\ rcv_pc' = IF conn_ok THEN "login" ELSE "connect"
    /\ rc_op' = "connect"
    /\ UNCHANGED <<rc_running_, client_msg_seq_num_, rcv_seq, app_pc, app_seq>>
    /\ SendUnchanged

\* perform_login(): the two tests and client_msg_seq_num_ = 0
RcvLoginReset ==
    /\ rcv_pc = "login"
    /\ IF ~connected_ \/ logged_in_
       THEN /\ rcv_pc' = "idle"
            /\ UNCHANGED client_msg_seq_num_
       ELSE /\ rcv_pc' = "login_load"
            /\ client_msg_seq_num_' = 0
    /\ rc_op' = "login"
    /\ UNCHANGED <<rc_running_, connected_, logged_in_, socket_fd_, rc_connects,
                   rcv_seq, app_pc, app_seq, session_seqs>>
    /\ SendUnchanged

\* handle_protocol_message, HeartbeatServer104: send_client_heartbeat()
\* and its test of connected_
RcvHeartbeat ==
    /\ rcv_pc = "idle"
    /\ connected_ /\ socket_fd_ >= 0
    /\ client_msg_seq_num_ < MaxClientSeq
    /\ rcv_pc' = "hb_load"
    /\ rc_op' = "recv"
    /\ UNCHANGED <<rc_running_, connected_, logged_in_, socket_fd_, client_msg_seq_num_,
                   rc_connects, rcv_seq, app_pc, app_seq, session_seqs>>
    /\ SendUnchanged

\* handle_protocol_message, RetransmissionStart050: logged_in_ = true
RcvLoginAccepted ==
    /\ rcv_pc = "idle"
    /\ connected_ /\ socket_fd_ >= 0
    /\ ~logged_in_
    /\ \E i \in 1..Len(session_seqs) :
           session_seqs[i].msg_type = LoginRequest020_MESSAGE_TYPE
    /\ logged_in_' = TRUE
    /\ rc_op' = "recv"
    /\ UNCHANGED <<rc_running_, connected_, socket_fd_, client_msg_seq_num_,
                   rc_connects, rcv_pc, rcv_seq, app_pc, app_seq, session_seqs>>
    /\ SendUnchanged

\* receive_loop finds the connection gone and goes to reconnect
RcvReconnect ==
    /\ rcv_pc = "idle"
    /\ ~connected_ \/ socket_fd_ < 0
    /\ rcv_pc' = "connect"
    /\ rc_op' = "loop"
    /\ UNCHANGED <<rc_running_, connected_, logged_in_, socket_fd_, client_msg_seq_num_,
                   rc_connects, rcv_seq, app_pc, app_seq, session_seqs>>
    /\ SendUnchanged

\* msg_seq_num = client_msg_seq_num_++, the read
RcvLoad ==
    /\ rcv_pc \in {"login_load", "hb_load"}
    /\ rcv_seq' = client_msg_seq_num_
    /\ rcv_pc' = IF rcv_pc = "login_load" THEN "login_store" ELSE "hb_store"
    /\ UNCHANGED <<rc_running_, connected_, logged_in_, socket_fd_, client_msg_seq_num_,
                   rc_connects, rc_op, app_pc, app_seq, session_seqs>>
    /\ SendUnchanged

\* msg_seq_num = client_msg_seq_num_++, the write (the values stay far
\* below the wrap of uint32_t)
RcvStore ==
    /\ rcv_pc \in {"login_store", "hb_store"}
    /\ client_msg_seq_num_' = rcv_seq + 1
    /\ rcv_pc' = IF rcv_pc = "login_store" THEN "login_send" ELSE "hb_send"
    /\ UNCHANGED <<rc_running_, connected_, logged_in_, socket_fd_,
                   rc_connects, rc_op, rcv_seq, app_pc, app_seq, session_seqs>>
    /\ SendUnchanged

\* send_tcp_message as a step of a thread: send_ok is the result of send()
SendStep(msg_type, msg_seq_num, send_ok) ==
    IF ~connected_ \/ socket_fd_ < 0
    THEN UNCHANGED <<connected_, logged_in_, socket_fd_, session_seqs>>
    ELSE IF send_ok
    THEN /\ session_seqs' = Append(session_seqs, SentMsg(msg_type, msg_seq_num))
         /\ UNCHANGED <<connected_, logged_in_, socket_fd_>>
    ELSE /\ socket_fd_' = -1
         /\ connected_' = FALSE
         /\ logged_in_' = FALSE
         /\ UNCHANGED session_seqs

\* send_tcp_message(buffer) of perform_login and send_client_heartbeat
RcvSend(send_ok) ==
    /\ rcv_pc \in {"login_send", "hb_send"}
    /\ SendStep(IF rcv_pc = "login_send" THEN LoginRequest020_MESSAGE_TYPE
                ELSE HeartbeatClient105_MESSAGE_TYPE, rcv_seq, send_ok)
    /\ rcv_pc' = "idle"
    /\ UNCHANGED <<rc_running_, client_msg_seq_num_, rc_connects, rc_op,
                   rcv_seq, app_pc, app_seq>>
    /\ SendUnchanged

\* request_retransmission called by the application: the test of logged_in_
AppRequest ==
    /\ app_pc = "idle"
    /\ logged_in_
    /\ client_msg_seq_num_ < MaxClientSeq
    /\ app_pc' = "load"
    /\ rc_op' = "request"
    /\ UNCHANGED <<rc_running_, connected_, logged_in_, socket_fd_, client_msg_seq_num_,
                   rc_connects, rcv_pc, rcv_seq, app_seq, session_seqs>>
    /\ SendUnchanged

\* req.header.msg_seq_num = client_msg_seq_num_++, the read
AppLoad ==
    /\ app_pc = "load"
    /\ app_seq' = client_msg_seq_num_
    /\ app_pc' = "store"
    /\ UNCHANGED <<rc_running_, connected_, logged_in_, socket_fd_, client_msg_seq_num_,
                   rc_connects, rc_op, rcv_pc, rcv_seq, session_seqs>>
    /\ SendUnchanged

\* req.header.msg_seq_num = client_msg_seq_num_++, the write
AppStore ==
    /\ app_pc = "store"
    /\ client_msg_seq_num_' = app_seq + 1
    /\ app_pc' = "send"
    /\ UNCHANGED <<rc_running_, connected_, logged_in_, socket_fd_,
                   rc_connects, rc_op, rcv_pc, rcv_seq, app_seq, session_seqs>>
    /\ SendUnchanged

\* send_tcp_message(buffer) of request_retransmission
AppSend(send_ok) ==
    /\ app_pc = "send"
    /\ SendStep(DataRequest101_MESSAGE_TYPE, app_seq, send_ok)
    /\ app_pc' = "idle"
    /\ UNCHANGED <<rc_running_, client_msg_seq_num_, rc_connects, rc_op,
                   rcv_pc, rcv_seq, app_seq>>
    /\ SendUnchanged

NextSend ==
    \/ SendStart
    \/ \E conn_ok \in BOOLEAN : RcvConnect(conn_ok)
    \/ RcvLoginReset
    \/ RcvHeartbeat
    \/ RcvLoginAccepted
    \/ RcvReconnect
    \/ RcvLoad
    \/ RcvStore
    \/ \E send_ok \in BOOLEAN : RcvSend(send_ok)
    \/ AppRequest
    \/ AppLoad
    \/ AppStore
    \/ \E send_ok \in BOOLEAN : AppSend(send_ok)

SpecSend == Init /\ [][NextSend]_vars

\* C27: the messages written to one connection start with the LoginRequest
\* carrying msg_seq_num 0, and every later message carries a larger
\* msg_seq_num than all the messages before it
C27_SessionSeqStrictlyIncreasing ==
    /\ session_seqs # <<>> =>
           session_seqs[1] = SentMsg(LoginRequest020_MESSAGE_TYPE, 0)
    /\ \A i \in 1..Len(session_seqs) : \A j \in 1..Len(session_seqs) :
           i < j => session_seqs[i].msg_seq_num < session_seqs[j].msg_seq_num

(***************************************************************************)
(* SpecProtocol: the functions of the recovery protocol                    *)
(* (retransmission_protocol.cpp) applied to chosen arguments               *)
(***************************************************************************)
\* ---- calculate_check_code ----
IsDigit(ch) == ch >= Ch0 /\ ch <= Ch9

\* std::isspace for the characters of the model
IsSpace(ch) == ch = ChSpace

\* the value of the decimal digits str[first..last]
RECURSIVE DigitsValue(_, _, _)
DigitsValue(str, first, last) ==
    IF last < first THEN 0
    ELSE (DigitsValue(str, first, last - 1) * 10) + (str[last] - Ch0)

\* the index of the first character at or after pos that does not satisfy
\* the test (Len(str) + 1 when there is none)
RECURSIVE SkipSpaces(_, _)
SkipSpaces(str, pos) ==
    IF pos <= Len(str) /\ IsSpace(str[pos]) THEN SkipSpaces(str, pos + 1) ELSE pos

RECURSIVE SkipDigits(_, _)
SkipDigits(str, pos) ==
    IF pos <= Len(str) /\ IsDigit(str[pos]) THEN SkipDigits(str, pos + 1) ELSE pos

\* std::stoll(str): leading white space, an optional sign, then the longest
\* run of digits; std::invalid_argument (ok = FALSE) when there is no digit.
\* (values beyond long long, std::out_of_range, are not among the inputs)
stoll(str) ==
    LET begin == SkipSpaces(str, 1)
        negative == begin <= Len(str) /\ str[begin] = ChMinus
        first == IF negative THEN begin + 1 ELSE begin
        past == SkipDigits(str, first)
    IN  IF past = first THEN [ok |-> FALSE, val |-> 0]
        ELSE [ok |-> TRUE,
              val |-> IF negative THEN 0 - DigitsValue(str, first, past - 1)
                      ELSE DigitsValue(str, first, past - 1)]

\* calculate_check_code taking the last two digits of the product
calculate_check_code_last_digits(mult_op, password_str) ==
    IF password_str = <<>> \/ ~stoll(password_str).ok THEN 0
    ELSE LET product == mult_op * stoll(password_str).val
         IN  (IF product < 0 THEN 0 - product ELSE product) % 100

\* calculate_check_code(mult_op, password_str)
calculate_check_code(mult_op, password_str) ==
    IF password_str = <<>> THEN 0
    ELSE IF ~stoll(password_str).ok THEN 0
    ELSE LET product == mult_op * stoll(password_str).val
             magnitude == IF product < 0 THEN 0 - product ELSE product
         IN  ((magnitude \div 100) % 100) % 256

\* ---- the messages ----
\* the sizes in bytes of the payload fields of each message type, in the
\* order they are written (102: the fixed part)
FieldWidths(msg_type) ==
    CASE msg_type = LoginRequest020_MESSAGE_TYPE -> <<2, 1, 2>>
      [] msg_type = LoginResponse030_MESSAGE_TYPE -> <<2>>
      [] msg_type = RetransmissionStart050_MESSAGE_TYPE -> <<>>
      [] msg_type = ErrorNotification010_MESSAGE_TYPE -> <<1>>
      [] msg_type = HeartbeatServer104_MESSAGE_TYPE -> <<>>
      [] msg_type = HeartbeatClient105_MESSAGE_TYPE -> <<>>
      [] msg_type = DataRequest101_MESSAGE_TYPE -> <<2, 4, 2>>
      [] msg_type = DataResponse102_MESSAGE_TYPE -> <<2, 1, 4, 2>>

\* a message object: its type, header.msg_seq_num, its payload fields in
\* declaration order and, for 102, the data passed beside it
Message(msg_type, msg_seq_num, fields, retrans_data) ==
    [msg_type |-> msg_type, msg_seq_num |-> msg_seq_num, fields |-> fields,
     retrans_data |-> retrans_data]

\* one field in network byte order
field_bytes(width, value) ==
    CASE width = 1 -> <<value % 256>>
      [] width = 2 -> host_to_network_short(value)
      [] width = 4 -> host_to_network_long(value)

RECURSIVE payload_bytes(_, _)
payload_bytes(widths, fields) ==
    IF widths = <<>> THEN <<>>
    ELSE field_bytes(Head(widths), Head(fields))
         \o payload_bytes(Tail(widths), Tail(fields))

\* <Message>::serialize(buffer) on an empty buffer: the header with
\* msg_type and msg_size overwritten, the payload, the check_sum.  The
\* msg_size of a 102 is a uint16_t computed from retrans_data.size().
serialize_message(msg) ==
    LET payload == payload_bytes(FieldWidths(msg.msg_type), msg.fields)
                   \o msg.retrans_data
        msg_size == ((RetransmissionMsgHeader_SIZE - 2) + Len(payload)) % (UINT16_MAX + 1)
        written == host_to_network_short(msg_size)
                   \o host_to_network_short(msg.msg_type)
                   \o host_to_network_long(msg.msg_seq_num)
                   \o host_to_network_long(0) \o host_to_network_long(0)
                   \o payload
    IN  written \o <<calculate_retransmission_checksum(written, 2 + msg_size)>>

\* the payload fields deserialize reads, starting after offset bytes
RECURSIVE read_fields(_, _, _)
read_fields(widths, data, offset) ==
    IF widths = <<>> THEN <<>>
    ELSE <<CASE Head(widths) = 1 -> data[offset + 1]
             [] Head(widths) = 2 -> network_to_host_short(data, offset)
             [] Head(widths) = 4 -> network_to_host_long(data, offset)>>
         \o read_fields(Tail(widths), data, offset + Head(widths))

\* <Message>::deserialize(data, len) of the class whose MESSAGE_TYPE is
\* given: its result and, when it is true, the members it filled
deserialize(MESSAGE_TYPE, data, len) ==
    LET ok == IF MESSAGE_TYPE = DataResponse102_MESSAGE_TYPE
              THEN deserialize_102(data, len)
              ELSE deserialize_fixed(data, len, MESSAGE_TYPE)
    IN  IF ~ok THEN [ok |-> FALSE]
        ELSE [ok |-> TRUE,
              msg_type |-> RetransmissionMsgHeader_deserialize(data, len).msg_type,
              msg_seq_num |-> RetransmissionMsgHeader_deserialize(data, len).msg_seq_num,
              fields |-> read_fields(FieldWidths(MESSAGE_TYPE), data,
                                     RetransmissionMsgHeader_SIZE),
              retrans_data |-> IF MESSAGE_TYPE = DataResponse102_MESSAGE_TYPE
                               THEN retransmitted_data(data, len) ELSE <<>>]

\* ---- the arguments ----
MaxPasswordLen == 5

Passwords ==
    { <<Ch1, Ch2, Ch3, Ch4>>, <<Ch1>>, <<Ch1, Ch0, Ch0>>, <<Ch1, Ch2, Ch3>>,
      <<Ch0, Ch9, Ch9, Ch9>>, <<Ch0>>, <<Ch5, Ch9>>,
      [i \in 1..MaxPasswordLen |-> Ch9],
      <<>>, <<ChA, ChB>>, <<Ch1, Ch2, ChA>>, <<ChMinus, Ch1, Ch2, Ch3>>,
      <<ChSpace, Ch4, Ch2>> }

\* the passwords that are a number written in decimal digits
NumericPasswords ==
    { p \in Passwords : p # <<>> /\ \A i \in 1..Len(p) : IsDigit(p[i]) }

\* the number a numeric password writes
RECURSIVE NumberOf(_)
NumberOf(p) ==
    IF p = <<>> THEN 0
    ELSE (NumberOf(SubSeq(p, 1, Len(p) - 1)) * 10) + (p[Len(p)] - Ch0)

MultOps == {168, 10, 100, 50}

SessionIds == {0, 1, 258}

\* the functions keep no state from one call to the next: a behaviour
\* follows one use of them from the start
ProtocolUnchanged ==
    UNCHANGED <<facadeVars, bookVars, netVars, clientVars, pathVars, streamVars,
                stopVars, handlerVars, sendVars, failVars, terminated>>

\* calculate_check_code(mult_op, password_str)
CalculateCheckCode(mult_op, password_str) ==
    /\ pr_op = "none"
    /\ pr_op' = "check_code"
    /\ pr_msg' = [mult_op |-> mult_op, password |-> password_str]
    /\ pr_bytes' = <<>>
    /\ pr_out' = calculate_check_code(mult_op, password_str)
    /\ ProtocolUnchanged

\* the LoginRequest020 perform_login builds and serializes for a client
\* constructed with this session id and password
the_login_request(session_id_, password_) ==
    Message(LoginRequest020_MESSAGE_TYPE, 0,
            <<168, calculate_check_code(168, password_), session_id_>>, <<>>)

BuildLoginRequest(session_id_, password_) ==
    /\ pr_op = "none"
    /\ pr_op' = "login"
    /\ pr_msg' = [session_id |-> session_id_, password |-> password_]
    /\ \E buffer \in {serialize_message(the_login_request(session_id_, password_))} :
           /\ pr_bytes' = buffer
           /\ pr_out' = deserialize(LoginRequest020_MESSAGE_TYPE, buffer, Len(buffer))
    /\ ProtocolUnchanged

\* C29: the LoginRequest the client sends for a numeric password carries
\* check_code = ((multiplication_operator * password) / 100) mod 100 beside
\* the multiplication_operator it was computed with (168); for the password
\* 1234 it carries 73.  calculate_check_code computes the same for the
\* other operators.
C29_CheckCodeOfLoginRequest ==
    /\ pr_op = "login" /\ pr_msg.password \in NumericPasswords =>
           /\ pr_out.ok
           /\ pr_out.fields[1] = 168
           /\ pr_out.fields[2] = ((168 * NumberOf(pr_msg.password)) \div 100) % 100
           /\ pr_bytes[RetransmissionMsgHeader_SIZE + 3] = pr_out.fields[2]
           /\ pr_msg.password = <<Ch1, Ch2, Ch3, Ch4>> => pr_out.fields[2] = 73
    /\ pr_op = "check_code" /\ pr_msg.password \in NumericPasswords =>
           pr_out = ((pr_msg.mult_op * NumberOf(pr_msg.password)) \div 100) % 100

\* the LoginRequest for password 1234 has been built and carries 73
C29_Witness ==
    /\ pr_op = "login"
    /\ pr_msg.password = <<Ch1, Ch2, Ch3, Ch4>>
    /\ pr_bytes[RetransmissionMsgHeader_SIZE + 3] = 73

\* ---- serialize followed by deserialize ----
Uint8Values == {0, 255}

Uint16Values == {0, 258, UINT16_MAX}

\* (values from 2^31 on are beyond the integers of the checker)
Uint32Values == {0, 16909060, 2147483647}

FieldValues(width) ==
    CASE width = 1 -> Uint8Values
      [] width = 2 -> Uint16Values
      [] width = 4 -> Uint32Values

MessageTypes ==
    {LoginRequest020_MESSAGE_TYPE, LoginResponse030_MESSAGE_TYPE,
     RetransmissionStart050_MESSAGE_TYPE, ErrorNotification010_MESSAGE_TYPE,
     HeartbeatServer104_MESSAGE_TYPE, HeartbeatClient105_MESSAGE_TYPE,
     DataRequest101_MESSAGE_TYPE, DataResponse102_MESSAGE_TYPE}

\* every assignment of the values above to the fields of a message type
FieldChoices(msg_type) ==
    LET widths == FieldWidths(msg_type)
    IN  { f \in [1..Len(widths) -> Uint8Values \cup Uint16Values \cup Uint32Values] :
            \A i \in 1..Len(widths) : f[i] \in FieldValues(widths[i]) }

\* the largest retrans_data whose msg_size fits the uint16_t field
MaxRetransDataSize == UINT16_MAX - ((RetransmissionMsgHeader_SIZE - 2)
                                    + DATA_RESPONSE_102_FIXED_PAYLOAD_SIZE)

\* the data of the test, one market-data frame, none, and data one byte
\* longer than fits
RetransData ==
    {<<1, 2, 3, 4>>, aGoodFrame, <<>>}

OversizedRetransData == [i \in 1..(MaxRetransDataSize + 1) |-> 0]

RoundTripMessages ==
    UNION { { Message(t, n, f, d) :
                n \in Uint32Values, f \in FieldChoices(t),
                d \in IF t = DataResponse102_MESSAGE_TYPE THEN RetransData ELSE {<<>>} } :
            t \in MessageTypes }
    \cup {Message(DataResponse102_MESSAGE_TYPE, 1, <<258, 0, 2, 3>>, OversizedRetransData)}

SerializeAndDeserialize(msg) ==
    /\ pr_op = "none"
    /\ pr_op' = "round_trip"
    /\ pr_msg' = msg
    /\ \E buffer \in {serialize_message(msg)} :
           /\ pr_bytes' = buffer
           /\ pr_out' = deserialize(msg.msg_type, buffer, Len(buffer))
    /\ ProtocolUnchanged

\* the check_sum byte of the serialized message is changed (inverted, as
\* the test does with ^= 0xFF, or increased by the mask) and the bytes are
\* deserialized again
DeserializeBadChecksum(mask) ==
    /\ pr_op = "round_trip"
    /\ pr_op' = "bad_checksum"
    /\ \E buffer \in {[pr_bytes EXCEPT ![Len(pr_bytes)] =
                          IF mask = 255 THEN 255 - @ ELSE (@ + mask) % 256]} :
           /\ pr_bytes' = buffer
           /\ pr_out' = deserialize(pr_msg.msg_type, buffer, Len(buffer))
    /\ UNCHANGED pr_msg
    /\ ProtocolUnchanged

\* the msg_type of the serialized message is replaced, the check_sum
\* recomputed as the test does, and the bytes are deserialized again
with_msg_type(buffer, bad_type_val) ==
    LET bad_type_buffer == [buffer EXCEPT ![3] = host_to_network_short(bad_type_val)[1],
                                          ![4] = host_to_network_short(bad_type_val)[2]]
        len_for_checksum == 2 + network_to_host_short(bad_type_buffer, 0)
    IN  IF len_for_checksum < Len(bad_type_buffer)
        THEN [bad_type_buffer EXCEPT ![len_for_checksum + 1] =
                  calculate_retransmission_checksum(bad_type_buffer, len_for_checksum)]
        ELSE bad_type_buffer

DeserializeBadType(bad_type_val) ==
    /\ pr_op = "round_trip"
    /\ bad_type_val # pr_msg.msg_type
    /\ pr_op' = "bad_type"
    /\ \E buffer \in {with_msg_type(pr_bytes, bad_type_val)} :
           /\ pr_bytes' = buffer
           /\ pr_out' = deserialize(pr_msg.msg_type, buffer, Len(buffer))
    /\ UNCHANGED pr_msg
    /\ ProtocolUnchanged

\* the serialized message came back from deserialize as it was given
CameBackEqual ==
    /\ pr_out.ok
    /\ pr_out.msg_type = pr_msg.msg_type
    /\ pr_out.msg_seq_num = pr_msg.msg_seq_num
    /\ pr_out.fields = pr_msg.fields
    /\ pr_out.retrans_data = pr_msg.retrans_data

\* C30 as stated: every message of the eight types comes back equal from
\* deserialize(serialize(m)), whatever its fields and data; the bytes with
\* another check_sum, or with another msg_type and the check_sum recomputed,
\* are rejected.
C30_RoundTripEveryMessage ==
    /\ pr_op = "round_trip" => CameBackEqual
    /\ pr_op \in {"bad_checksum", "bad_type"} => ~pr_out.ok

\* C30, amended: the same for the messages whose msg_size fits its
\* uint16_t field, that is, for a 102 with at most MaxRetransDataSize
\* (65512) bytes of data
C30_RoundTripWithinMsgSize ==
    /\ pr_op = "round_trip" /\ Len(pr_msg.retrans_data) <= MaxRetransDataSize
           => CameBackEqual
    /\ pr_op \in {"bad_checksum", "bad_type"} => ~pr_out.ok

\* a DataResponse102 carrying a market-data frame came back equal
C30_Witness ==
    /\ pr_op = "round_trip"
    /\ pr_msg.msg_type = DataResponse102_MESSAGE_TYPE
    /\ pr_msg.retrans_data = aGoodFrame
    /\ pr_msg.fields = <<UINT16_MAX, 255, 2147483647, UINT16_MAX>>
    /\ pr_out.ok /\ pr_out.retrans_data = aGoodFrame

NextProtocol ==
    \/ \E mult_op \in MultOps, password_str \in Passwords :
           CalculateCheckCode(mult_op, password_str)
    \/ \E session_id_ \in SessionIds, password_ \in Passwords :
           BuildLoginRequest(session_id_, password_)
    \/ \E msg \in RoundTripMessages : SerializeAndDeserialize(msg)
    \/ \E mask \in {255, 1} : DeserializeBadChecksum(mask)
    \/ \E bad_type_val \in MessageTypes \cup {11} : DeserializeBadType(bad_type_val)

SpecProtocol == Init /\ [][NextProtocol]_vars

(***************************************************************************)
(* SpecFailover: NetworkManager and its RetransmissionClient.  The         *)
(* client's callbacks are lambdas that call NetworkManager's handlers, so  *)
(* on_retransmission_disconnected runs inside the client operation that    *)
(* dropped the connection, on the client's receive thread.                 *)
(***************************************************************************)
FailoverUnchanged ==
    UNCHANGED <<facadeVars, bookVars, netVars, pathVars, streamVars, handlerVars,
                stopVars, sendVars, protoVars>>

\* whether disconnected_callback_ was invoked during an operation
DisconnectedCallbackInvoked(trace) ==
    \E i \in 1..Len(trace) : trace[i].ev = "disconnected_callback"

\* on_retransmission_disconnected() called on the receive thread of client
\* c.  With the primary active and a backup configured it calls
\* retransmission_client_->stop(): running_.exchange(false), nothing to
\* close, then client_thread_->join() on the calling thread itself, which
\* throws std::system_error (resource_deadlock_would_occur); nothing on the
\* receive thread catches it.
on_retransmission_disconnected(c, primary_active, backup_configured) ==
    IF primary_active /\ backup_configured
    THEN [client |-> [c EXCEPT !.running_ = FALSE, !.threw = TRUE],
          retrans_primary_active_ |-> primary_active,
          endpoint |-> "primary"]
    ELSE [client |-> c,
          retrans_primary_active_ |-> primary_active,
          endpoint |-> IF primary_active THEN "primary" ELSE "backup"]

\* an operation of the receive thread ends, the disconnect handler
\* included when the operation invoked the callback
EndFailoverStep(c, op) ==
    \E client \in {c} :
        \E nm \in {IF DisconnectedCallbackInvoked(client.trace)
                   THEN on_retransmission_disconnected(client, retrans_primary_active_,
                                                       backup_retrans_server)
                   ELSE [client |-> client,
                         retrans_primary_active_ |-> retrans_primary_active_,
                         endpoint |-> nm_endpoint]} :
            /\ EndClientStep(nm.client, op)
            /\ retrans_primary_active_' = nm.retrans_primary_active_
            /\ nm_endpoint' = nm.endpoint
            /\ UNCHANGED backup_retrans_server
            /\ FailoverUnchanged

\* configure_and_start with a primary recovery server and, or not, a
\* backup: connect_retransmission_client(true) makes the client and starts it
FailoverConfigureAndStart(backup_configured) ==
    /\ ~terminated
    /\ nm_endpoint = "none"
    /\ EndClientStep([TheClient EXCEPT !.running_ = TRUE], "start")
    /\ retrans_primary_active_' = TRUE
    /\ backup_retrans_server' = backup_configured
    /\ nm_endpoint' = "primary"
    /\ UNCHANGED <<wire, rc_connects>>
    /\ FailoverUnchanged

\* receive_loop, not connected: connect_to_server and perform_login
FailoverConnect(conn_ok, send_ok) ==
    /\ ~terminated
    /\ rc_running_
    /\ ~connected_ \/ socket_fd_ < 0
    /\ conn_ok => rc_connects < MaxConnects
    /\ EndFailoverStep(connect_and_login(TheClient, conn_ok, send_ok), "connect")
    /\ wire' = <<>>
    /\ rc_connects' = IF conn_ok THEN rc_connects + 1 ELSE rc_connects

\* the server writes a message to the session
FailoverServerSend(m) ==
    /\ nm_endpoint # "none"
    /\ ServerSend(m)

\* receive_loop: recv() returns the bytes written, process_incoming_data runs
FailoverRecvData(send_ok) ==
    /\ ~terminated
    /\ rc_running_ /\ connected_ /\ socket_fd_ >= 0
    /\ wire # <<>>
    /\ \E c \in {process_incoming_data(TheClient, wire, send_ok)} :
           /\ c.client_msg_seq_num_ <= MaxClientSeq
           /\ Len(c.tcp_receive_buffer_) <= MaxBufferLen
           /\ EndFailoverStep(c, "recv")
    /\ wire' = <<>>
    /\ UNCHANGED rc_connects

\* receive_loop: recv() returns 0 (the server closed) or fails
FailoverRecvClosed ==
    /\ ~terminated
    /\ rc_running_ /\ connected_ /\ socket_fd_ >= 0
    /\ EndFailoverStep(drop_connection(TheClient), "recv_closed")
    /\ wire' = <<>>
    /\ UNCHANGED rc_connects

NextFailover ==
    \/ \E backup_configured \in BOOLEAN : FailoverConfigureAndStart(backup_configured)
    \/ \E conn_ok \in BOOLEAN, send_ok \in BOOLEAN : FailoverConnect(conn_ok, send_ok)
    \/ \E m \in ServerMessages : FailoverServerSend(m)
    \/ \E send_ok \in BOOLEAN : FailoverRecvData(send_ok)
    \/ FailoverRecvClosed

SpecFailover == Init /\ [][NextFailover]_vars

\* C33: when the client made for the primary server is disconnected and a
\* backup is configured, the disconnect handling ends with a running client
\* for the backup server, and the process goes on.
C33_SwitchToBackupCompletes ==
    [][ ( /\ nm_endpoint = "primary" /\ retrans_primary_active_
          /\ backup_retrans_server
          /\ rc_op' \in {"connect", "recv", "recv_closed"}
          /\ DisconnectedCallbackInvoked(rc_trace') )
        => /\ ~terminated'
           /\ nm_endpoint' = "backup"
           /\ ~retrans_primary_active_'
           /\ rc_running_' ]_vars

====
